---- MODULE Spec2Model ----
(***************************************************************************)
(* State-machine model of the event-driven orchestration code of           *)
(* src/ui/app.js: the tool-approval gate, the chat streaming buffer and    *)
(* the co-work task runner.                                                *)
(*                                                                         *)
(* JavaScript runs one handler turn at a time; an async function is cut at *)
(* each await into a first part (the action named after the function) and  *)
(* one resume action per await.  Every backend call (invoke) is recorded   *)
(* in a call log, with its arguments as evaluated when the call was made.  *)
(* null is modelled as 0, strings as sequences of characters.              *)
(* Init is the state after init() has completed for a logged-in user.      *)
(***************************************************************************)
EXTENDS Integers, Sequences, FiniteSets, TLC

\* ------------------------------------------------------------------ bounds
\* Number of distinct approval request ids the backend issues.
MaxRequests == 2
\* Number of times the user triggers respondToolApproval.
MaxRespondInvocations == 3

\* Number of ids generateId hands out (sessions and draft tabs).
MaxIds == 2
\* Number of chat_stream calls issued (messages the user sends).
MaxStreams == 2
\* The same, in the specification that follows stream starts only.
MaxStarts == 3
\* Number of chunk events the backend emits, over all chat streams.
MaxChunks == 2
\* Number of thinking events the backend emits per chat stream.
MaxThinking == 1
\* session_save_message calls
MaxSaves == 2
\* Number of terminal events (done, cancelled, error) delivered per chat
\* stream: more than one models duplicate delivery.
MaxTerminals == 2
\* Number of terminal events delivered, over all chat streams.
MaxTerminalEvents == 3

\* Number of files of the file tree.
MaxFiles == 1
\* Number of openFile and openSession calls that reach their await.
MaxOpens == 2
\* Files of the work dir, and edits and saves made in the editor.
MaxWorkDirFiles == 2
MaxKeystrokes == 1
MaxWrites == 2
MaxEditOpens == 2
\* Number of session_messages calls issued.
MaxLoads == 2

\* Number of distinct tool-call ids in the specification of interleaved tool
\* calls.
MaxInterleavedCalls == 2
\* Number of tool_status and tool_result events of the chat.
MaxToolEvents == 3
\* Number of session_delete calls issued.
MaxDeletes == 2
\* Number of togglePinnedSession calls.
MaxToggles == 3

\* Number of co-work tasks the user launches.
MaxLaunches == 2
\* Number of task-run events the backend emits, over all task runs.
MaxTaskEvents == 3
\* Number of distinct tool-call ids in task-run events.
MaxToolCalls == 1
\* The same, in the specification that follows task launches.
MaxLaunchEvents == 1
\* Number of clicks on the task list and on the New Task and Close buttons.
MaxTaskClicks == 1

VARIABLES
  \* ---- chat (src/ui/app.js:6-47, 371-375)
  isStreaming,             \* state.isStreaming
  inputsEnabled,           \* enableInputs(...): send buttons and inputs usable
  currentSession,          \* state.currentSession: a session id, 0 is null
  sessions,                \* state.sessions: session ids, newest first
  openTabs,                \* state.openTabs
  activeTab,               \* state.activeTab: a tab path, 0 is null
  currentMessageEl,        \* let currentMessageEl: an element id, 0 is null
  currentTextBuffer,       \* let currentTextBuffer
  currentThinkingEl,       \* let currentThinkingEl
  currentThinkingBuffer,   \* let currentThinkingBuffer
  messagesDom,             \* children of elements.messages
  messageLoads,            \* log of invoke('session_messages') calls
  closedActive,            \* history: index and tab count of the last closeTab
  tabBar,                  \* elements.tabList: the paths of the tab elements rendered,
                           \* none while the tab bar is hidden
  toolMessages,            \* toolMessages: tool-call id -> body.textContent of its message
  toolEvents,              \* history: the tool events handleChatEvent dispatched
  frameQueue,              \* the callbacks passed to requestAnimationFrame, not yet run
  lastFrame,               \* history: the flushes the last animation frame executed
  editMode,                \* elements.fileViewEditor is shown (not 'hidden')
  editOriginalContent,     \* state.editOriginalContent: 0 is null
  editTab,                 \* history: the tab on which enterEditMode began editing
  editorValue,             \* elements.fileEditorTextarea.value
  files,                   \* backend: the content of the files of the work dir
  fileWrites,              \* log of invoke('write_file') calls
                           \* that removed the active tab
  chatStreams,             \* log of invoke('chat_stream') calls and, per
                           \* stream, what the backend has emitted for it
  saveCalls,               \* log of invoke('session_save_message') calls
  fileOpens,               \* log of invoke('read_file') calls of openFile
  sessionOpens,            \* log of the applyWorkDir awaits of openSession
  pinnedSessions,          \* state.settings.pinned_sessions
  sessionDeletes,          \* log of invoke('session_delete') calls
  pinToggles,              \* history: number of togglePinnedSession calls
  nextId,                  \* generateId(): the next fresh id
  nextElId,                \* document.createElement: the next element id
  env,                     \* what the user and the backend will do at most:
                           \* fixed by the initial state, never changed
  \* ---- approval gate (src/ui/app.js:376, 599-620)
  pendingApprovalId,       \* let pendingApprovalId: 0 is null
  toolApprovalModalOpen,   \* elements.toolApprovalModal has class 'open'
  approvalCalls,           \* log of invoke('tool_approval_respond') calls
  nextRequestId,           \* backend: the next fresh request id
  respondInvocations,      \* history: number of respondToolApproval invocations
  \* ---- co-work (src/ui/app.js:6-47, 2855-2856)
  coworkTasks,             \* state.coworkTasks
  currentCoworkTask,       \* state.currentCoworkTask: a task id, 0 is null
  coworkTaskContent,       \* children of elements.coworkTaskContent
  coworkStepIndex,         \* dataset.stepIndex of every step element created
  coworkToolSteps,         \* const coworkToolSteps: tool-call id -> element
  coworkOutputSteps,       \* const coworkOutputSteps: task id -> element
  coworkSaves,             \* log of invoke('cowork_history_upsert') payloads
  coworkLaunches,          \* running startCoworkTask calls and, per launch,
                           \* what the backend has emitted for its run
  coworkEmptyHidden,       \* elements.coworkEmpty has class 'hidden'
  coworkClock,             \* the last value read from Date.now()
  coworkClicks,            \* history: number of co-work navigation clicks
  \* ---- notifications
  errorToasts              \* the messages passed to showError so far

approvalVars == <<pendingApprovalId, toolApprovalModalOpen, approvalCalls,
                  nextRequestId, respondInvocations>>
tabVars == <<currentSession, openTabs, activeTab, messagesDom, messageLoads,
             closedActive, tabBar, toolMessages, editMode, editOriginalContent, editTab>>
\* The edit-mode fields closeTab resets.
editUi == <<editMode, editOriginalContent, editTab>>
\* The editor's text, the files and the write_file calls.
editorVars == <<editorValue, files, fileWrites>>
bufferVars == <<currentMessageEl, currentTextBuffer>>
thinkingVars == <<currentThinkingEl, currentThinkingBuffer>>
\* The logs of the opening calls: no streaming handler touches them.
openVars == <<fileOpens, sessionOpens>>
\* The session list's pins and deletions.
sessionListVars == <<pinnedSessions, sessionDeletes, pinToggles>>
\* The tool events dispatched so far and the rendering callbacks.
historyVars == <<toolEvents, frameQueue, lastFrame>>
chatOnlyVars == <<isStreaming, inputsEnabled, sessions, tabVars, bufferVars,
                  thinkingVars, chatStreams, saveCalls, nextElId, env, openVars, editorVars,
                  sessionListVars, historyVars>>
chatVars == <<chatOnlyVars, nextId>>
coworkVarsButLaunches == <<coworkTasks, currentCoworkTask, coworkTaskContent,
                           coworkStepIndex, coworkToolSteps, coworkOutputSteps,
                           coworkSaves, coworkEmptyHidden, coworkClock, coworkClicks>>
coworkVars == <<coworkVarsButLaunches, coworkLaunches>>
nonApprovalVars == <<chatVars, coworkVars>>
nonChatVars == <<approvalVars, coworkVars, openVars, editorVars, sessionListVars, historyVars>>
vars == <<approvalVars, chatVars, coworkVars, errorToasts>>

\* ------------------------------------------------------------- values
NULL == 0
RequestIds == 1..MaxRequests
ToolCallIds == 1..MaxToolCalls
\* What a rejected invoke() carries: an Error-like object with a message, or a
\* bare value without one (Tauri rejects with the command's Err payload).
ErrKinds == {"withMessage", "noMessage"}
BackendMessage == "backend error"

\* err.message || fallback
ErrMessageOr(err, fallback) ==
  IF err = "withMessage" THEN BackendMessage ELSE fallback

\* err?.message || err || fallback: a rejection without a message is itself
\* the text shown.
ErrMessageOrSelf(err) ==
  IF err = "withMessage" THEN BackendMessage ELSE "rejection value"

showError(message) == errorToasts' = errorToasts \cup {message}

\* Characters of the texts the model feeds.
Blank == " "
\* String.prototype.trim
RECURSIVE TrimLeft(_)
TrimLeft(t) == IF t # <<>> /\ Head(t) = Blank THEN TrimLeft(Tail(t)) ELSE t
RECURSIVE TrimRight(_)
TrimRight(t) ==
  IF t # <<>> /\ t[Len(t)] = Blank THEN TrimRight(SubSeq(t, 1, Len(t) - 1)) ELSE t
Trim(t) == TrimRight(TrimLeft(t))

\* Map.get: undefined is 0.
MapGet(m, k) == IF k \in DOMAIN m THEN m[k] ELSE NULL
MapSet(m, k, v) == [x \in DOMAIN m \cup {k} |-> IF x = k THEN v ELSE m[x]]
MapDelete(m, k) == [x \in DOMAIN m \ {k} |-> m[x]]
EmptyMap == [x \in {} |-> NULL]

\* ================================================================ approval
\* function openToolApprovalModal(data): data.request_id is r, 0 when the
\* field is missing.
openToolApprovalModal(r) ==
  /\ pendingApprovalId' = r
  /\ toolApprovalModalOpen' = IF r = NULL THEN toolApprovalModalOpen ELSE TRUE

\* handleChatEvent, case 'tool_approval'.  The backend issues each request id
\* once; an event may also lack the id.
ToolApprovalEvent(r) ==
  /\ \/ r = NULL /\ nextRequestId' = nextRequestId
     \/ r = nextRequestId /\ r \in RequestIds /\ nextRequestId' = nextRequestId + 1
  /\ openToolApprovalModal(r)
  /\ UNCHANGED <<approvalCalls, respondInvocations, errorToasts, nonApprovalVars>>

\* Mutant of respondToolApproval: the pending-id guard is missing.
respondToolApproval_NoGuard(approved) ==
  /\ approvalCalls' = Append(approvalCalls,
       [requestId |-> pendingApprovalId, approved |-> approved,
        result |-> "pending"])
  /\ UNCHANGED <<pendingApprovalId, toolApprovalModalOpen>>

\* async function respondToolApproval(approved), up to its await.
respondToolApproval(approved) ==
  IF pendingApprovalId = NULL
  THEN UNCHANGED <<pendingApprovalId, toolApprovalModalOpen, approvalCalls>>
  ELSE /\ approvalCalls' = Append(approvalCalls,
            [requestId |-> pendingApprovalId, approved |-> approved,
             result |-> "pending"])
       /\ UNCHANGED <<pendingApprovalId, toolApprovalModalOpen>>

\* The click handlers of initEvents: approve button.
ClickApprove ==
  /\ respondInvocations < MaxRespondInvocations
  /\ respondInvocations' = respondInvocations + 1
  /\ respondToolApproval(TRUE)
  /\ UNCHANGED <<nextRequestId, errorToasts, nonApprovalVars>>

\* Reject button, close button and backdrop click.
ClickReject ==
  /\ respondInvocations < MaxRespondInvocations
  /\ respondInvocations' = respondInvocations + 1
  /\ respondToolApproval(FALSE)
  /\ UNCHANGED <<nextRequestId, errorToasts, nonApprovalVars>>

\* window keydown handler, Escape: only when the dialog is open.
PressEscape ==
  /\ respondInvocations < MaxRespondInvocations
  /\ toolApprovalModalOpen
  /\ respondInvocations' = respondInvocations + 1
  /\ respondToolApproval(FALSE)
  /\ UNCHANGED <<nextRequestId, errorToasts, nonApprovalVars>>

\* Mutant of respondToolApprovalResume: the clearing statements sit inside
\* the try block, so a rejected call skips them.
respondToolApprovalResume_ClearInTry(i, err) ==
  /\ approvalCalls' = [approvalCalls EXCEPT ![i].result =
                          IF err = "none" THEN "ok" ELSE "failed"]
  /\ IF err = "none"
     THEN /\ UNCHANGED errorToasts
          /\ pendingApprovalId' = NULL
          /\ toolApprovalModalOpen' = FALSE
     ELSE /\ showError(ErrMessageOr(err, "Failed to submit approval"))
          /\ UNCHANGED <<pendingApprovalId, toolApprovalModalOpen>>

\* respondToolApproval after its await: the call i has settled; err is "none"
\* when it resolved.
respondToolApprovalResume(i, err) ==
  /\ approvalCalls' = [approvalCalls EXCEPT ![i].result =
                          IF err = "none" THEN "ok" ELSE "failed"]
  /\ IF err = "none"
     THEN UNCHANGED errorToasts
     ELSE showError(ErrMessageOr(err, "Failed to submit approval"))
  /\ pendingApprovalId' = NULL
  /\ toolApprovalModalOpen' = FALSE

ApprovalCallSettles(i, err) ==
  /\ i \in DOMAIN approvalCalls
  /\ approvalCalls[i].result = "pending"
  /\ respondToolApprovalResume(i, err)
  /\ UNCHANGED <<nextRequestId, respondInvocations, nonApprovalVars>>

InitApproval ==
  /\ pendingApprovalId = NULL
  /\ toolApprovalModalOpen = FALSE
  /\ approvalCalls = <<>>
  /\ nextRequestId = 1
  /\ respondInvocations = 0

\* ==================================================================== chat
UserMessage(sid) == [kind |-> "user", owner |-> sid, el |-> 0]
NoMessagesPlaceholder == [kind |-> "none", owner |-> 0, el |-> 0]

\* The fields the tab and chat-view functions read and write, as one record,
\* so that a function calling another is function composition; threw records
\* an exception propagating out of the function.
Ui ==
  [openTabs |-> openTabs, activeTab |-> activeTab,
   currentSession |-> currentSession, currentMessageEl |-> currentMessageEl,
   currentTextBuffer |-> currentTextBuffer, messagesDom |-> messagesDom,
   messageLoads |-> messageLoads, closedActive |-> closedActive,
   tabBar |-> tabBar,
   toolMessages |-> toolMessages, editMode |-> editMode,
   editOriginalContent |-> editOriginalContent, editTab |-> editTab,
   threw |-> FALSE]

\* The state after a handler that ran the function: an exception ends the
\* handler and leaves the assignments made so far.
SetUi(u) ==
  /\ openTabs' = u.openTabs
  /\ activeTab' = u.activeTab
  /\ currentSession' = u.currentSession
  /\ currentMessageEl' = u.currentMessageEl
  /\ currentTextBuffer' = u.currentTextBuffer
  /\ messagesDom' = u.messagesDom
  /\ messageLoads' = u.messageLoads
  /\ closedActive' = u.closedActive
  /\ tabBar' = u.tabBar
  /\ toolMessages' = u.toolMessages
  /\ editMode' = u.editMode
  /\ editOriginalContent' = u.editOriginalContent
  /\ editTab' = u.editTab

\* Array.prototype.findIndex(t => t.path === path), 0 when absent.
TabIndex(tabs, path) ==
  IF \E i \in DOMAIN tabs : tabs[i].path = path
  THEN CHOOSE i \in DOMAIN tabs :
         tabs[i].path = path /\ \A j \in 1..(i - 1) : tabs[j].path # path
  ELSE 0

TabPaths(tabs) == [i \in DOMAIN tabs |-> tabs[i].path]

\* function renderTabs(): with no tab open it hides the tab bar and returns.
renderTabs(u) == [u EXCEPT !.tabBar = TabPaths(u.openTabs)]

\* The paths of the tab elements the user can click.
Rendered == {tabBar[i] : i \in DOMAIN tabBar}

RemoveAt(seq, i) == SubSeq(seq, 1, i - 1) \o SubSeq(seq, i + 1, Len(seq))

Min(a, b) == IF a <= b THEN a ELSE b

\* async function loadSessionMessages(session), up to its await.
loadSessionMessages(u, session) ==
  [u EXCEPT !.messagesDom = {},
            !.currentMessageEl = NULL,
            !.currentTextBuffer = <<>>,
            !.toolMessages = EmptyMap,
            !.messageLoads = Append(@, [sessionId |-> session, result |-> "pending"])]

\* function showChatView(session): session.title of a null session throws,
\* after state.currentSession was assigned.
showChatView(u, session) ==
  IF session = NULL
  THEN [u EXCEPT !.currentSession = NULL, !.threw = TRUE]
  ELSE LET u1 == [u EXCEPT !.currentSession = session]
       IN IF u1.messagesDom = {} \/ NoMessagesPlaceholder \in u1.messagesDom
          THEN loadSessionMessages(u1, session)
          ELSE u1

\* function showFileView(tab): touches only the file view.
showFileView(u, tab) == u

\* function activateTab(path)
activateTab(u, path) ==
  LET u1 == renderTabs([u EXCEPT !.activeTab = path])
      i == TabIndex(u1.openTabs, path)
  IN IF i = 0 THEN u1
     ELSE IF u1.openTabs[i].type = "file"
          THEN showFileView(u1, u1.openTabs[i])
          ELSE showChatView(u1, u1.openTabs[i].session)

NoClose == [index |-> 0, count |-> 0]

\* function exitEditMode(): the editor is hidden, the textarea keeps its value.
exitEditMode(u) ==
  [u EXCEPT !.editMode = FALSE, !.editOriginalContent = NULL, !.editTab = NULL]

\* Variant of closeTab that always selects the tab at the closed index.
closeTab_NoClamp(u, path) ==
  LET index == TabIndex(u.openTabs, path)
  IN IF index = 0 THEN u
     ELSE LET rest == RemoveAt(u.openTabs, index)
              u0 == [u EXCEPT !.openTabs = rest]
              u1 == exitEditMode(
                      [u0 EXCEPT !.closedActive = [index |-> index, count |-> Len(u.openTabs)]])
              shown ==
                IF u.activeTab # path THEN u0
                ELSE IF Len(rest) > 0
                     THEN LET newIndex == IF index <= Len(rest) THEN index ELSE 1
                              u2 == [u1 EXCEPT !.activeTab = rest[newIndex].path]
                          IN IF rest[newIndex].type = "file"
                             THEN showFileView(u2, rest[newIndex])
                             ELSE showChatView(u2, rest[newIndex].session)
                     ELSE [u1 EXCEPT !.activeTab = NULL, !.currentSession = NULL]
          IN IF shown.threw THEN shown ELSE renderTabs(shown)

\* function closeTab(path)
closeTab(u, path) ==
  LET index == TabIndex(u.openTabs, path)
  IN IF index = 0 THEN u
     ELSE LET rest == RemoveAt(u.openTabs, index)
              u0 == [u EXCEPT !.openTabs = rest]
              u1 == exitEditMode(
                      [u0 EXCEPT !.closedActive = [index |-> index, count |-> Len(u.openTabs)]])
              shown ==
                IF u.activeTab # path THEN u0
                ELSE IF Len(rest) > 0
                     THEN LET newIndex == Min(index, Len(rest))
                              u2 == [u1 EXCEPT !.activeTab = rest[newIndex].path]
                          IN IF rest[newIndex].type = "file"
                             THEN showFileView(u2, rest[newIndex])
                             ELSE showChatView(u2, rest[newIndex].session)
                     ELSE [u1 EXCEPT !.activeTab = NULL, !.currentSession = NULL]
          IN IF shown.threw THEN shown ELSE renderTabs(shown)

\* function closeChat()
closeChat(u) ==
  LET u1 == IF u.currentSession # NULL THEN closeTab(u, u.currentSession) ELSE u
  IN IF u1.threw THEN u1
     ELSE [u1 EXCEPT !.currentSession = NULL,
                     !.currentMessageEl = NULL,
                     !.currentTextBuffer = <<>>,
                     !.toolMessages = EmptyMap]

OpenPaths == {openTabs[i].path : i \in DOMAIN openTabs}

otherThanUi == <<isStreaming, inputsEnabled, sessions, thinkingVars, chatStreams,
                 saveCalls, nextId, nextElId, env>>

\* Click on a tab of the tab bar (renderTabs click handler).
ActivateTab(path) ==
  /\ path \in Rendered
  /\ SetUi(activateTab(Ui, path))
  /\ UNCHANGED <<otherThanUi, nonChatVars, errorToasts>>

\* Click on a tab's close button (renderTabs click handler).
CloseTab(path) ==
  /\ path \in Rendered
  /\ SetUi(closeTab(Ui, path))
  /\ UNCHANGED <<otherThanUi, nonChatVars, errorToasts>>

\* Click on btnCloseChat.
CloseChat ==
  /\ SetUi(closeChat(Ui))
  /\ UNCHANGED <<otherThanUi, nonChatVars, errorToasts>>

\* function createNewSessionTab() (btnNewSession click)
CreateNewSessionTab ==
  /\ nextId <= MaxIds
  /\ nextId' = nextId + 1
  /\ openTabs' = Append(openTabs,
        [path |-> nextId, type |-> "session", isNew |-> TRUE, session |-> NULL])
  /\ activeTab' = nextId
  /\ currentSession' = NULL
  /\ tabBar' = TabPaths(openTabs')
  /\ UNCHANGED <<isStreaming, inputsEnabled, sessions, messagesDom, messageLoads, closedActive, editUi,
                 toolMessages,
                 bufferVars, thinkingVars, chatStreams, saveCalls, nextElId, env,
                 nonChatVars, errorToasts>>

\* loadSessionMessages after its await: the session_messages call i settled
\* with no messages, with messages, or with an error.
loadSessionMessagesResume(i, outcome) ==
  /\ messageLoads' = [messageLoads EXCEPT ![i].result = outcome]
  /\ UNCHANGED <<closedActive, tabBar, editUi, toolMessages>>
  /\ messagesDom' =
       CASE outcome = "empty" -> {NoMessagesPlaceholder}
         [] outcome = "messages" ->
              messagesDom \cup {[kind |-> "history",
                                 owner |-> messageLoads[i].sessionId, el |-> 0]}
         [] outcome = "error" -> {[kind |-> "loadError", owner |-> 0, el |-> 0]}

MessageLoadSettles(i, outcome) ==
  /\ i \in DOMAIN messageLoads
  /\ messageLoads[i].result = "pending"
  /\ loadSessionMessagesResume(i, outcome)
  /\ UNCHANGED <<isStreaming, inputsEnabled, sessions, currentSession, openTabs,
                 activeTab, bufferVars, thinkingVars, chatStreams, saveCalls,
                 nextId, nextElId, env, nonChatVars, errorToasts>>

\* -------------------------------------------------------------- opening
\* The paths of the file tree: negative, so that none equals a session id.
FilePaths == {0 - f : f \in 1..MaxFiles}
\* The files of the work dir and what each holds at start-up.
WorkDirPaths == {0 - f : f \in 1..MaxWorkDirFiles}
FileText(path) == IF path = 0 - 1 THEN <<"a">> ELSE <<"b">>
\* The tab openFile pushes: content is what read_file resolved with.
FileTab(path) ==
  [path |-> path, type |-> "file", isNew |-> FALSE, session |-> NULL,
   content |-> files[path]]
SessionTab(sid) == [path |-> sid, type |-> "session", isNew |-> FALSE, session |-> sid]
HasTab(tabs, path, type) ==
  \E i \in DOMAIN tabs : tabs[i].path = path /\ tabs[i].type = type
\* openFile and openSession calls that have reached their await.
OpenCalls == Len(fileOpens) + Len(sessionOpens)

otherThanOpening == <<isStreaming, inputsEnabled, sessions, thinkingVars, chatStreams,
                      saveCalls, nextId, nextElId, env, approvalVars, coworkVars,
                      sessionListVars, historyVars, editorVars>>

\* async function openFile(filePath, fileName), up to its await; work_dir
\* is set.  (Click on a file of the file tree.)
openFile(path) ==
  IF HasTab(openTabs, path, "file")
  THEN /\ SetUi(activateTab(Ui, path))
       /\ UNCHANGED fileOpens
  ELSE /\ OpenCalls < env.opens
       /\ fileOpens' = Append(fileOpens, [path |-> path, result |-> "pending"])
       /\ UNCHANGED <<tabVars, bufferVars>>

OpenFile(path) ==
  /\ openFile(path)
  /\ UNCHANGED <<otherThanOpening, sessionOpens, errorToasts>>

\* openFile after its await: read_file call i settled.
openFileResume(i, ok) ==
  /\ fileOpens' = [fileOpens EXCEPT ![i].result = IF ok THEN "resolved" ELSE "rejected"]
  /\ IF ok
     THEN /\ SetUi(showFileView(
                     renderTabs([Ui EXCEPT !.openTabs = Append(@, FileTab(fileOpens[i].path)),
                                           !.activeTab = fileOpens[i].path]),
                     FileTab(fileOpens[i].path)))
          /\ UNCHANGED errorToasts
     ELSE /\ showError("Failed to open file: backend error")
          /\ UNCHANGED <<tabVars, bufferVars>>

ReadFileSettles(i, ok) ==
  /\ i \in DOMAIN fileOpens
  /\ fileOpens[i].result = "pending"
  /\ openFileResume(i, ok)
  /\ UNCHANGED <<otherThanOpening, sessionOpens>>

\* async function openSession(sessionId), up to its await; the session has
\* a work_dir, so applyWorkDir is awaited.  (Click on a session of the list.)
openSession(sid) ==
  IF ~\E i \in DOMAIN sessions : sessions[i] = sid
  THEN UNCHANGED <<tabVars, bufferVars, sessionOpens>>
  ELSE IF HasTab(openTabs, sid, "session")
  THEN /\ SetUi(activateTab(Ui, sid))
       /\ UNCHANGED sessionOpens
  ELSE /\ OpenCalls < env.opens
       /\ currentSession' = sid
       /\ sessionOpens' = Append(sessionOpens, [session |-> sid, result |-> "pending"])
       /\ UNCHANGED <<openTabs, activeTab, messagesDom, messageLoads, closedActive, tabBar, editUi,
                      toolMessages, bufferVars>>

OpenSession(sid) ==
  /\ \E i \in DOMAIN sessions : sessions[i] = sid
  /\ openSession(sid)
  /\ UNCHANGED <<otherThanOpening, fileOpens, errorToasts>>

\* openSession after applyWorkDir: the tab is added and shown, then the
\* messages are loaded; a rejected applyWorkDir ends the function.
openSessionResume(i, ok) ==
  LET sid == sessionOpens[i].session
      pushed == renderTabs([Ui EXCEPT !.openTabs = Append(@, SessionTab(sid)),
                                      !.activeTab = sid])
  IN  /\ sessionOpens' = [sessionOpens EXCEPT
                            ![i].result = IF ok THEN "resolved" ELSE "rejected"]
      /\ IF ok THEN SetUi(loadSessionMessages(showChatView(pushed, sid), sid))
         ELSE UNCHANGED <<tabVars, bufferVars>>

ApplyWorkDirSettles(i, ok) ==
  /\ i \in DOMAIN sessionOpens
  /\ sessionOpens[i].result = "pending"
  /\ openSessionResume(i, ok)
  /\ UNCHANGED <<otherThanOpening, fileOpens, errorToasts>>

\* ------------------------------------------------------------ file editor
\* The file view is the visible view: the active tab is a file tab.
FileViewShown ==
  LET i == TabIndex(openTabs, activeTab) IN i # 0 /\ openTabs[i].type = "file"

otherThanEditing == <<isStreaming, inputsEnabled, sessions, currentSession, openTabs,
                      activeTab, messagesDom, messageLoads, closedActive, tabBar, toolMessages,
                      bufferVars, thinkingVars, chatStreams, saveCalls, nextId, nextElId,
                      env, approvalVars, coworkVars, openVars, sessionListVars,
                      historyVars>>

\* function enterEditMode()
enterEditMode ==
  LET i == TabIndex(openTabs, activeTab)
  IN IF activeTab = NULL \/ i = 0
     THEN UNCHANGED <<editUi, editorValue>>
     ELSE /\ editMode' = TRUE
          /\ editorValue' = openTabs[i].content
          /\ editOriginalContent' = openTabs[i].content
          /\ editTab' = activeTab

\* Click on btnEditFile, which the file view shows while not editing.
EnterEditMode ==
  /\ FileViewShown
  /\ ~editMode
  /\ enterEditMode
  /\ UNCHANGED <<otherThanEditing, files, fileWrites, errorToasts>>

\* The user types a character into fileEditorTextarea.
TypeInEditor ==
  /\ FileViewShown
  /\ editMode
  /\ Len(editorValue) < MaxKeystrokes + 1
  /\ editorValue' = editorValue \o <<"x">>
  /\ UNCHANGED <<otherThanEditing, editUi, files, fileWrites, errorToasts>>

\* function cancelEdit(): click on btnCancelEdit, Escape in the textarea.
CancelEdit ==
  /\ FileViewShown
  /\ editMode
  /\ editMode' = exitEditMode(Ui).editMode
  /\ editOriginalContent' = exitEditMode(Ui).editOriginalContent
  /\ editTab' = exitEditMode(Ui).editTab
  /\ UNCHANGED <<otherThanEditing, editorVars, errorToasts>>

\* async function saveFile(), up to its await; work_dir is set.  editing:
\* history, the tab on which the edit being saved began.
saveFile ==
  LET i == TabIndex(openTabs, activeTab)
  IN IF activeTab = NULL \/ i = 0
     THEN UNCHANGED fileWrites
     ELSE fileWrites' = Append(fileWrites,
            [path |-> openTabs[i].path, content |-> editorValue,
             editing |-> editTab, result |-> "pending"])

\* Click on btnSaveFile, Ctrl+S in the textarea: both exist while editing.
SaveFile ==
  /\ FileViewShown
  /\ editMode
  /\ Len(fileWrites) < MaxWrites
  /\ saveFile
  /\ UNCHANGED <<otherThanEditing, editUi, editorValue, files, errorToasts>>

\* saveFile after its await: write_file call i settled.  The tab object
\* saveFile found is the open tab of that path.
saveFileResume(i, ok) ==
  LET w == fileWrites[i]
      k == TabIndex(openTabs, w.path)
  IN /\ fileWrites' = [fileWrites EXCEPT ![i].result = IF ok THEN "resolved" ELSE "rejected"]
     /\ IF ok
        THEN /\ files' = [files EXCEPT ![w.path] = w.content]
             /\ openTabs' = IF k # 0 /\ openTabs[k].type = "file"
                            THEN [openTabs EXCEPT ![k].content = w.content]
                            ELSE openTabs
             /\ editMode' = exitEditMode(Ui).editMode
             /\ editOriginalContent' = exitEditMode(Ui).editOriginalContent
             /\ editTab' = exitEditMode(Ui).editTab
             /\ UNCHANGED errorToasts
        ELSE /\ showError("Failed to save file: backend error")
             /\ UNCHANGED <<files, openTabs, editUi>>

WriteFileSettles(i, ok) ==
  /\ i \in DOMAIN fileWrites
  /\ fileWrites[i].result = "pending"
  /\ saveFileResume(i, ok)
  /\ UNCHANGED <<isStreaming, inputsEnabled, sessions, currentSession, activeTab,
                 messagesDom, messageLoads, closedActive, tabBar, toolMessages, bufferVars,
                 thinkingVars, chatStreams, saveCalls, nextId, nextElId, env,
                 approvalVars, coworkVars, openVars, sessionListVars, historyVars,
                 editorValue>>

\* ---------------------------------------------------------- session list
\* Array.prototype.filter(x => x !== id)
RECURSIVE Without(_, _)
Without(list, id) ==
  IF list = <<>> THEN <<>>
  ELSE IF Head(list) = id THEN Without(Tail(list), id)
  ELSE <<Head(list)>> \o Without(Tail(list), id)

\* Array.prototype.indexOf(id), counting from 1; 0 when absent.
IndexOf(list, id) ==
  IF \E i \in DOMAIN list : list[i] = id
  THEN CHOOSE i \in DOMAIN list : list[i] = id /\ \A j \in 1..(i - 1) : list[j] # id
  ELSE 0

\* function togglePinnedSession(sessionId): the list after the call.
togglePinnedSession(list, sessionId) ==
  IF IndexOf(list, sessionId) > 0
  THEN RemoveAt(list, IndexOf(list, sessionId))
  ELSE <<sessionId>> \o list

otherThanSessionList == <<isStreaming, inputsEnabled, thinkingVars, chatStreams,
                          saveCalls, nextId, nextElId, env, approvalVars, coworkVars,
                          openVars, editorVars, historyVars>>

\* Click on the pin button of a session of the list (edit mode).
TogglePinnedSession(sid) ==
  /\ pinToggles < env.toggles
  /\ \E i \in DOMAIN sessions : sessions[i] = sid
  /\ pinToggles' = pinToggles + 1
  /\ pinnedSessions' = togglePinnedSession(pinnedSessions, sid)
  /\ UNCHANGED <<sessions, sessionDeletes, tabVars, bufferVars, otherThanSessionList,
                 errorToasts>>

\* async function deleteSession(sessionId), up to its await.  (Click on
\* the delete button of a session of the list.)
deleteSession(sid) ==
  IF ~\E i \in DOMAIN sessions : sessions[i] = sid
  THEN UNCHANGED sessionDeletes
  ELSE /\ Len(sessionDeletes) < env.deletes
       /\ sessionDeletes' = Append(sessionDeletes, [session |-> sid, result |-> "pending"])

DeleteSession(sid) ==
  /\ \E i \in DOMAIN sessions : sessions[i] = sid
  /\ deleteSession(sid)
  /\ UNCHANGED <<sessions, pinnedSessions, pinToggles, tabVars, bufferVars,
                 otherThanSessionList, errorToasts>>

\* deleteSession after session_delete call i settled.
deleteSessionResume(i, ok) ==
  LET sid == sessionDeletes[i].session
  IN  /\ sessionDeletes' = [sessionDeletes EXCEPT
                              ![i].result = IF ok THEN "resolved" ELSE "rejected"]
      /\ IF ok
         THEN /\ sessions' = Without(sessions, sid)
              /\ pinnedSessions' = Without(pinnedSessions, sid)
              /\ IF currentSession = sid THEN SetUi(closeChat(Ui))
                 ELSE UNCHANGED <<tabVars, bufferVars>>
              /\ UNCHANGED errorToasts
         ELSE /\ showError(BackendMessage)
              /\ UNCHANGED <<sessions, pinnedSessions, tabVars, bufferVars>>

SessionDeleteSettles(i, ok) ==
  /\ i \in DOMAIN sessionDeletes
  /\ sessionDeletes[i].result = "pending"
  /\ deleteSessionResume(i, ok)
  /\ UNCHANGED <<pinToggles, otherThanSessionList>>

\* ------------------------------------------------------------ streaming
\* kind: history, the kind of the stream's last terminal event.
NewStream(sid, starter) ==
  [sessionId |-> sid, starter |-> starter, call |-> "pending",
   fed |-> <<>>, chunks |-> 0, thinks |-> 0, terminals |-> 0, kind |-> "none"]

\* The statements sendMessage, startNewSession and startNewSessionInTab share
\* before their await: reset the streaming state and issue chat_stream.
BeginStream(sid, starter) ==
  /\ currentMessageEl' = NULL
  /\ currentTextBuffer' = <<>>
  /\ isStreaming' = TRUE
  /\ inputsEnabled' = FALSE
  /\ chatStreams' = Append(chatStreams, NewStream(sid, starter))

\* async function startNewSession(prompt), up to its await.
startNewSession ==
  /\ nextId <= MaxIds
  /\ nextId' = nextId + 1
  /\ currentSession' = nextId
  /\ openTabs' = Append(openTabs,
        [path |-> nextId, type |-> "session", isNew |-> FALSE, session |-> nextId])
  /\ activeTab' = nextId
  /\ tabBar' = TabPaths(openTabs')
  /\ messagesDom' = {UserMessage(nextId)}
  /\ toolMessages' = EmptyMap
  /\ BeginStream(nextId, "startNewSession")

\* Variant of startNewSessionInTab that leaves the tab without its session.
startNewSessionInTab_Unbound(k) ==
  LET sessionId == openTabs[k].path
  IN /\ currentSession' = sessionId
     /\ openTabs' = [openTabs EXCEPT ![k].isNew = FALSE]
     /\ activeTab' = sessionId
     /\ tabBar' = TabPaths(openTabs')
     /\ messagesDom' = {UserMessage(sessionId)}
     /\ toolMessages' = EmptyMap
     /\ nextId' = nextId
     /\ BeginStream(sessionId, "startNewSessionInTab")

\* async function startNewSessionInTab(prompt, existingTab), up to its await;
\* k is the index of existingTab.
startNewSessionInTab(k) ==
  LET sessionId == openTabs[k].path
  IN /\ currentSession' = sessionId
     /\ openTabs' = [openTabs EXCEPT ![k].session = sessionId, ![k].isNew = FALSE]
     /\ activeTab' = sessionId
     /\ tabBar' = TabPaths(openTabs')
     /\ messagesDom' = {UserMessage(sessionId)}
     /\ toolMessages' = EmptyMap
     /\ nextId' = nextId
     /\ BeginStream(sessionId, "startNewSessionInTab")

\* async function sendMessage(text), up to the await of the branch taken.
sendMessage(text) ==
  LET k == TabIndex(openTabs, activeTab)
  IN IF Trim(text) = <<>> \/ isStreaming
     THEN UNCHANGED <<isStreaming, inputsEnabled, tabVars, bufferVars, chatStreams,
                      nextId>>
     ELSE /\ Len(chatStreams) < env.streams
          /\ UNCHANGED <<messageLoads, closedActive, editUi>>
          /\ IF k # 0 /\ openTabs[k].isNew
             THEN startNewSessionInTab(k)
             ELSE IF currentSession = NULL
                  THEN startNewSession
                  ELSE /\ messagesDom' = messagesDom \cup {UserMessage(currentSession)}
                       /\ BeginStream(currentSession, "sendMessage")
                       /\ UNCHANGED <<currentSession, openTabs, activeTab, tabBar,
                                      nextId, toolMessages>>

\* The texts the user submits: a message and a whitespace-only input.
Prompts == {<<"a">>, <<Blank>>}

\* btnSend / btnChatSend click, Enter in an input.
SendMessage(text) ==
  /\ sendMessage(text)
  /\ UNCHANGED <<sessions, thinkingVars, saveCalls, nextElId, env, nonChatVars,
                 errorToasts>>

\* Variant of finishStreamingTail that leaves the thinking buffer and its
\* element as they are.
finishStreamingTail_KeepsThinking ==
  /\ isStreaming' = FALSE
  /\ currentMessageEl' = NULL
  /\ currentTextBuffer' = <<>>
  /\ inputsEnabled' = TRUE
  /\ UNCHANGED thinkingVars

\* finishStreaming: the statements after the save.
finishStreamingTail ==
  /\ isStreaming' = FALSE
  /\ currentMessageEl' = NULL
  /\ currentThinkingEl' = NULL
  /\ currentTextBuffer' = <<>>
  /\ currentThinkingBuffer' = <<>>
  /\ inputsEnabled' = TRUE

\* async function finishStreaming(), up to its await: with nothing to save
\* it runs to its end.  s is the stream whose terminal event or rejected
\* start call made the call (the function itself does not know it).
finishStreaming(s) ==
  IF currentSession # NULL /\ Trim(currentTextBuffer) # <<>>
  THEN /\ saveCalls' = Append(saveCalls,
            [sessionId |-> currentSession, role |-> "assistant",
             content |-> currentTextBuffer, result |-> "pending",
             stream |-> s,
             first |-> chatStreams[s].terminals = 0 /\ chatStreams[s].call # "rejected"])
       /\ UNCHANGED <<isStreaming, inputsEnabled, bufferVars, thinkingVars>>
  ELSE /\ saveCalls' = saveCalls
       /\ finishStreamingTail

\* Variant of finishStreamingResume in which a rejected save ends the function
\* in the exception.
finishStreamingResume_RejectionEnds(i, err) ==
  /\ saveCalls' = [saveCalls EXCEPT ![i].result =
                      IF err = "none" THEN "ok" ELSE "failed"]
  /\ IF err = "none"
     THEN UNCHANGED errorToasts /\ finishStreamingTail
     ELSE /\ showError(ErrMessageOrSelf(err))
          /\ UNCHANGED <<isStreaming, inputsEnabled, bufferVars, thinkingVars>>

\* finishStreaming after its await: the session_save_message call i settled.
finishStreamingResume(i, err) ==
  /\ saveCalls' = [saveCalls EXCEPT ![i].result =
                      IF err = "none" THEN "ok" ELSE "failed"]
  /\ IF err = "none" THEN UNCHANGED errorToasts ELSE showError(ErrMessageOrSelf(err))
  /\ finishStreamingTail

SaveCallSettles(i, err) ==
  /\ i \in DOMAIN saveCalls
  /\ saveCalls[i].result = "pending"
  /\ finishStreamingResume(i, err)
  /\ UNCHANGED <<sessions, tabVars, chatStreams, nextId, nextElId, env, nonChatVars>>

\* function appendStreamingText(text), for a chunk of stream s.
appendStreamingText(s, text) ==
  /\ IF currentMessageEl = NULL
     THEN /\ currentMessageEl' = nextElId
          /\ nextElId' = nextElId + 1
          /\ messagesDom' = messagesDom \cup
               {[kind |-> "assistant", owner |-> chatStreams[s].sessionId,
                 el |-> nextElId]}
     ELSE UNCHANGED <<currentMessageEl, nextElId, messagesDom>>
  /\ currentTextBuffer' = currentTextBuffer \o text
  /\ frameQueue' = Append(frameQueue, [el |-> currentMessageEl', buffer |-> currentTextBuffer'])

\* function appendThinkingText(text), for a thinking event of stream s.
appendThinkingText(s, text) ==
  /\ IF currentThinkingEl = NULL
     THEN /\ currentThinkingEl' = nextElId
          /\ nextElId' = nextElId + 1
          /\ messagesDom' = messagesDom \cup
               {[kind |-> "thinking", owner |-> chatStreams[s].sessionId,
                 el |-> nextElId]}
     ELSE UNCHANGED <<currentThinkingEl, nextElId, messagesDom>>
  /\ currentThinkingBuffer' = currentThinkingBuffer \o text
  /\ frameQueue' = Append(frameQueue,
                          [el |-> currentThinkingEl', buffer |-> currentThinkingBuffer'])

\* The backend emits chunk and thinking events for a stream until it emits
\* the stream's terminal event or rejects the start call.
StreamLive(s) == chatStreams[s].terminals = 0 /\ chatStreams[s].call # "rejected"

RECURSIVE SumOf(_, _)
SumOf(f, n) == IF n = 0 THEN 0 ELSE f[n] + SumOf(f, n - 1)
TotalChunks == SumOf([s \in DOMAIN chatStreams |-> chatStreams[s].chunks], Len(chatStreams))
TotalTerminals ==
  SumOf([s \in DOMAIN chatStreams |-> chatStreams[s].terminals], Len(chatStreams))

\* The content of a chunk event; <<>> is a missing or empty content field.
ChunkContents == {<<>>, <<"a">>, <<Blank>>}
ThinkingContents == {<<"t">>}

\* handleChatEvent, case 'chunk'
ChunkEvent(s, text) ==
  /\ s \in DOMAIN chatStreams
  /\ StreamLive(s)
  /\ TotalChunks < env.chunks
  /\ chatStreams' = [chatStreams EXCEPT ![s].fed = @ \o text, ![s].chunks = @ + 1]
  /\ IF text # <<>>
     THEN appendStreamingText(s, text)
     ELSE UNCHANGED <<bufferVars, nextElId, messagesDom, frameQueue>>
  /\ UNCHANGED <<isStreaming, inputsEnabled, sessions, currentSession, openTabs,
                 activeTab, messageLoads, closedActive, tabBar, editUi, toolMessages, thinkingVars, saveCalls, nextId, env,
                 approvalVars, coworkVars, openVars, editorVars, sessionListVars, toolEvents,
                 lastFrame, errorToasts>>

\* handleChatEvent, case 'thinking'
ThinkingEvent(s, text) ==
  /\ s \in DOMAIN chatStreams
  /\ StreamLive(s)
  /\ chatStreams[s].thinks < env.thinks
  /\ chatStreams' = [chatStreams EXCEPT ![s].thinks = @ + 1]
  /\ IF text # <<>>
     THEN appendThinkingText(s, text)
     ELSE UNCHANGED <<thinkingVars, nextElId, messagesDom, frameQueue>>
  /\ UNCHANGED <<isStreaming, inputsEnabled, sessions, currentSession, openTabs,
                 activeTab, messageLoads, closedActive, tabBar, editUi, toolMessages, bufferVars, saveCalls, nextId, env,
                 approvalVars, coworkVars, openVars, editorVars, sessionListVars, toolEvents,
                 lastFrame, errorToasts>>

\* Node.isConnected of a message element: it is in elements.messages.
IsConnected(el) == \E m \in messagesDom : m.el = el

\* The browser runs the animation frame: every callback queued since the
\* last one runs, in order; a callback whose element is connected writes its
\* captured buffer to the element's body.
AnimationFrame ==
  /\ frameQueue # <<>>
  /\ lastFrame' = SelectSeq(frameQueue, LAMBDA cb : IsConnected(cb.el))
  /\ frameQueue' = <<>>
  /\ UNCHANGED <<approvalVars, isStreaming, inputsEnabled, sessions, tabVars, bufferVars,
                 thinkingVars, chatStreams, saveCalls, nextElId, env, openVars, editorVars,
                 sessionListVars, toolEvents, nextId, coworkVars, errorToasts>>

\* ---------------------------------------------------------- tool messages
\* The characters of the tool texts.
Newline == "\n"
Tool == <<"T", "o", "o", "l">>
ToolSpace == Tool \o <<Blank>>

\* String.prototype.includes
Includes(text, sub) ==
  \E i \in 0..(Len(text) - Len(sub)) : SubSeq(text, i + 1, i + Len(sub)) = sub

\* What handleToolStatus and handleToolResult read and write: the map of
\* tool messages (each the element and its body.textContent) and
\* elements.messages.
Tm == [toolMessages |-> toolMessages, messagesDom |-> messagesDom, nextElId |-> nextElId]
SetTm(t) ==
  /\ toolMessages' = t.toolMessages
  /\ messagesDom' = t.messagesDom
  /\ nextElId' = t.nextElId

\* item = createToolMessageElement(label); toolMessages.set(toolCallId, item);
\* elements.messages.appendChild(item), when the map has no item for the id.
EnsureToolMessage(t, owner, toolCallId, label) ==
  IF toolCallId \in DOMAIN t.toolMessages THEN t
  ELSE [toolMessages |-> MapSet(t.toolMessages, toolCallId,
                                [el |-> t.nextElId, text |-> label]),
        messagesDom |-> t.messagesDom \cup
                          {[kind |-> "tool", owner |-> owner, el |-> t.nextElId]},
        nextElId |-> t.nextElId + 1]

\* function handleToolStatus(data); a missing or empty field is <<>>, a
\* missing tool_call_id is 0.
handleToolStatus(t, owner, data) ==
  IF data.tool_call_id = NULL THEN t
  ELSE LET toolCallId == data.tool_call_id
           label == IF data.label # <<>> THEN data.label
                    ELSE IF data.name # <<>> THEN data.name ELSE Tool
           t1 == EnsureToolMessage(t, owner, toolCallId, label)
           text == IF data.state = "end" /\ data.summary # <<>>
                   THEN label \o <<Newline>> \o data.summary
                   ELSE label
       IN [t1 EXCEPT !.toolMessages[toolCallId].text = text]

\* Variant of handleToolResult that appends the summary without looking for
\* it in the text.
handleToolResult_NoIncludes(t, owner, data) ==
  IF data.tool_call_id = NULL THEN t
  ELSE LET toolCallId == data.tool_call_id
           label == IF data.name # <<>> THEN ToolSpace \o data.name ELSE Tool
           t1 == EnsureToolMessage(t, owner, toolCallId, label)
           body == t1.toolMessages[toolCallId].text
           text0 == IF body # <<>> THEN body ELSE label
           text1 == IF data.summary # <<>>
                    THEN text0 \o <<Newline>> \o data.summary
                    ELSE text0
           text2 == IF data.output # <<>>
                    THEN text1 \o <<Newline, Newline>> \o data.output
                    ELSE text1
       IN [t1 EXCEPT !.toolMessages[toolCallId].text = text2]

\* function handleToolResult(data)
handleToolResult(t, owner, data) ==
  IF data.tool_call_id = NULL THEN t
  ELSE LET toolCallId == data.tool_call_id
           label == IF data.name # <<>> THEN ToolSpace \o data.name ELSE Tool
           t1 == EnsureToolMessage(t, owner, toolCallId, label)
           body == t1.toolMessages[toolCallId].text
           text0 == IF body # <<>> THEN body ELSE label
           text1 == IF data.summary # <<>> /\ ~Includes(text0, data.summary)
                    THEN text0 \o <<Newline>> \o data.summary
                    ELSE text0
           text2 == IF data.output # <<>>
                    THEN text1 \o <<Newline, Newline>> \o data.output
                    ELSE text1
       IN [t1 EXCEPT !.toolMessages[toolCallId].text = text2]

\* The fields of the tool events the backend emits.
ToolNames == {<<>>, <<"n">>}
ToolLabels == {<<>>, <<"s">>}
ToolSummaries == {<<>>, <<"o">>, <<"s">>}
ToolOutputs == {<<>>, <<"s">>}
NoToolData ==
  [tool_call_id |-> NULL, label |-> <<>>, name |-> <<>>, state |-> "start",
   summary |-> <<>>, output |-> <<>>]
ToolStatusData ==
  {[NoToolData EXCEPT !.tool_call_id = id, !.label = l, !.name = n] :
     id \in ToolCallIds, l \in ToolLabels, n \in ToolNames}
  \cup {[NoToolData EXCEPT !.tool_call_id = id, !.label = l, !.name = n,
                           !.state = "end", !.summary = sm] :
          id \in ToolCallIds, l \in ToolLabels, n \in ToolNames, sm \in ToolSummaries}
ToolResultData ==
  {[NoToolData EXCEPT !.tool_call_id = id, !.name = n, !.summary = sm, !.output = o] :
     id \in {NULL} \cup ToolCallIds, n \in ToolNames, sm \in ToolSummaries,
     o \in ToolOutputs}

\* The tool events of a chat stream that interleaves several tool calls.
InterleavedStatusData ==
  {[NoToolData EXCEPT !.tool_call_id = id] : id \in 1..MaxInterleavedCalls}
  \cup {[NoToolData EXCEPT !.tool_call_id = id, !.state = "end", !.summary = sm] :
          id \in 1..MaxInterleavedCalls, sm \in {<<>>, <<"s">>}}
InterleavedResultData ==
  {[NoToolData EXCEPT !.tool_call_id = id, !.summary = sm, !.output = o] :
     id \in 1..MaxInterleavedCalls, sm \in {<<>>, <<"s">>}, o \in ToolOutputs}

otherThanTools == <<isStreaming, inputsEnabled, sessions, currentSession, openTabs,
                    activeTab, messageLoads, closedActive, tabBar, editUi, bufferVars, thinkingVars,
                    chatStreams, saveCalls, nextId, env, approvalVars, coworkVars,
                    openVars, editorVars, sessionListVars, frameQueue, lastFrame, errorToasts>>

\* handleChatEvent, case 'tool_status'
ToolStatusEvent(s, data) ==
  /\ s \in DOMAIN chatStreams
  /\ StreamLive(s)
  /\ Len(toolEvents) < env.toolEvents
  /\ toolEvents' = Append(toolEvents, [type |-> "tool_status", data |-> data])
  /\ SetTm(handleToolStatus(Tm, chatStreams[s].sessionId, data))
  /\ UNCHANGED otherThanTools

\* handleChatEvent, case 'tool_result'
ToolResultEvent(s, data) ==
  /\ s \in DOMAIN chatStreams
  /\ StreamLive(s)
  /\ Len(toolEvents) < env.toolEvents
  /\ toolEvents' = Append(toolEvents, [type |-> "tool_result", data |-> data])
  /\ SetTm(handleToolResult(Tm, chatStreams[s].sessionId, data))
  /\ UNCHANGED otherThanTools

TerminalKinds == {"done", "cancelled", "error"}

\* handleChatEvent, cases 'done', 'cancelled' and 'error' (an error event
\* carries data.message)
TerminalEvent(s, kind) ==
  /\ s \in DOMAIN chatStreams
  /\ chatStreams[s].terminals < (IF env.duplicates THEN MaxTerminals ELSE 1)
  /\ env.duplicates \/ chatStreams[s].call # "rejected"
  /\ TotalTerminals < env.terminals
  /\ chatStreams' = [chatStreams EXCEPT ![s].terminals = @ + 1, ![s].kind = IF env.kinds THEN kind ELSE @]
  /\ IF kind = "error" THEN showError(BackendMessage) ELSE UNCHANGED errorToasts
  /\ finishStreaming(s)
  /\ UNCHANGED <<sessions, tabVars, nextId, nextElId, env, nonChatVars>>

\* sendMessage / startNewSession / startNewSessionInTab after the await of
\* chat_stream: the call of stream s resolved (err "none") or was rejected.
ChatStreamCallSettles(s, err) ==
  /\ s \in DOMAIN chatStreams
  /\ chatStreams[s].call = "pending"
  /\ err # "none" => (env.duplicates \/ chatStreams[s].terminals = 0)
  /\ chatStreams' = [chatStreams EXCEPT ![s].call =
                        IF err = "none" THEN "resolved" ELSE "rejected"]
  /\ IF err = "none"
     THEN /\ sessions' = IF chatStreams[s].starter = "sendMessage"
                         THEN sessions
                         ELSE <<currentSession>> \o sessions
          /\ UNCHANGED <<isStreaming, inputsEnabled, bufferVars, thinkingVars,
                         saveCalls, errorToasts>>
     ELSE /\ showError(ErrMessageOrSelf(err))
          /\ finishStreaming(s)
          /\ UNCHANGED sessions
  /\ UNCHANGED <<tabVars, nextId, nextElId, env, nonChatVars>>

\* stored: the number of sessions loadSessions found at start-up.
InitChatStored(stored) ==
  /\ isStreaming = FALSE
  /\ inputsEnabled = TRUE
  /\ currentSession = NULL
  /\ sessions = [i \in 1..stored |-> i]
  /\ openTabs = <<>>
  /\ activeTab = NULL
  /\ currentMessageEl = NULL
  /\ currentTextBuffer = <<>>
  /\ currentThinkingEl = NULL
  /\ currentThinkingBuffer = <<>>
  /\ messagesDom = {}
  /\ messageLoads = <<>>
  /\ closedActive = NoClose
  /\ tabBar = <<>>
  /\ toolMessages = EmptyMap
  /\ toolEvents = <<>>
  /\ frameQueue = <<>>
  /\ lastFrame = <<>>
  /\ chatStreams = <<>>
  /\ saveCalls = <<>>
  /\ nextId = stored + 1
  /\ nextElId = 1
  /\ fileOpens = <<>>
  /\ sessionOpens = <<>>
  /\ pinnedSessions = <<>>
  /\ sessionDeletes = <<>>
  /\ pinToggles = 0
  /\ editMode = FALSE
  /\ editOriginalContent = NULL
  /\ editTab = NULL
  /\ editorValue = <<>>
  /\ files = [p \in WorkDirPaths |-> FileText(p)]
  /\ fileWrites = <<>>

InitChat == InitChatStored(0)

\* ------------------------------------------------------ co-work task runner
\* The co-work fields as one value, so that the helper functions of the
\* source, which call each other, can be written as functions on it.  ret is
\* the helper's return value (an element id, 0 when it returns nothing).
Cw ==
  [tasks |-> coworkTasks, current |-> currentCoworkTask,
   content |-> coworkTaskContent, stepIndex |-> coworkStepIndex,
   toolSteps |-> coworkToolSteps, outputSteps |-> coworkOutputSteps,
   saves |-> coworkSaves, ret |-> NULL]

SetCw(c) ==
  /\ coworkTasks' = c.tasks
  /\ currentCoworkTask' = c.current
  /\ coworkTaskContent' = c.content
  /\ coworkStepIndex' = c.stepIndex
  /\ coworkToolSteps' = c.toolSteps
  /\ coworkOutputSteps' = c.outputSteps
  /\ coworkSaves' = c.saves

\* state.coworkTasks.find(t => t.id === id): its position, 0 when absent.
TaskPos(tasks, id) ==
  IF \E i \in DOMAIN tasks : tasks[i].id = id
  THEN CHOOSE i \in DOMAIN tasks : tasks[i].id = id
  ELSE 0

TaskById(tasks, id) == tasks[TaskPos(tasks, id)]

\* A task object is reached through the reference held by the list, by
\* state.currentCoworkTask or by a running startCoworkTask: all name the same
\* object, identified here by its id.
UpdateTask(c, id, task) ==
  IF TaskPos(c.tasks, id) = 0 THEN c
  ELSE [c EXCEPT !.tasks[TaskPos(c.tasks, id)] = task]

\* saveCoworkTask issues invoke('cowork_history_upsert') with the payload
\* built from the task as it is at the call; a rejection is only logged.
saveCoworkTask(c, id) ==
  LET task == TaskById(c.tasks, id)
  IN  [c EXCEPT !.saves = Append(@, [id |-> task.id, status |-> task.status,
                                      steps |-> task.steps])]

\* Variant of saveCoworkTaskResume in which a rejected save marks the task
\* as failed.
saveCoworkTaskResume_FailureMarksError(c, id, ok) ==
  IF ok \/ TaskPos(c.tasks, id) = 0 THEN c
  ELSE UpdateTask(c, id, [TaskById(c.tasks, id) EXCEPT !.status = "error"])

\* saveCoworkTask after its await: a rejection of cowork_history_upsert is
\* caught and logged with console.warn, and the function returns normally.
saveCoworkTaskResume(c, id, ok) == c

ensureCoworkTaskSteps(c) ==
  IF c.current = NULL THEN <<>> ELSE TaskById(c.tasks, c.current).steps

\* Array.prototype.sort with the comparator of updateCoworkTaskStatus:
\* descending updatedAt, equal keys keep their order.
InsertByUpdatedAt(sorted, t) ==
  LET before == {i \in DOMAIN sorted : sorted[i].updatedAt >= t.updatedAt}
      k == Cardinality(before)
  IN  SubSeq(sorted, 1, k) \o <<t>> \o SubSeq(sorted, k + 1, Len(sorted))

RECURSIVE SortByUpdatedAt(_)
SortByUpdatedAt(tasks) ==
  IF tasks = <<>> THEN <<>>
  ELSE InsertByUpdatedAt(SortByUpdatedAt(SubSeq(tasks, 1, Len(tasks) - 1)),
                         tasks[Len(tasks)])

\* function updateCoworkTaskStatus(task): the re-sort and the re-resolution
\* of the active task by id.
updateCoworkTaskStatus(c) ==
  LET sorted == SortByUpdatedAt(c.tasks)
  IN  [c EXCEPT !.tasks = sorted,
                !.current = IF c.current # NULL /\ TaskPos(sorted, c.current) = 0
                            THEN NULL ELSE c.current]

\* A new .cowork-step element: its id is its position in coworkStepIndex,
\* which holds dataset.stepIndex (0-based, as in the source).
appendCoworkStep(c, title, status) ==
  LET steps == ensureCoworkTaskSteps(c)
      stepData == [title |-> title, log |-> <<>>, status |-> status]
      el == Len(c.stepIndex) + 1
      pushed == IF c.current = NULL THEN c
                ELSE UpdateTask(c, c.current,
                       [TaskById(c.tasks, c.current) EXCEPT !.steps = Append(steps, stepData)])
  IN  [pushed EXCEPT !.stepIndex = Append(@, Len(steps)),
                     !.content = Append(@, el),
                     !.ret = el]

\* steps[stepIndex] of the current task exists.
HasStep(c, idx) == idx >= 0 /\ idx + 1 <= Len(ensureCoworkTaskSteps(c))

\* Variant of setCoworkStepStatus that flips the status of a completed step.
setCoworkStepStatus_Flip(c, stepEl, status) ==
  IF stepEl = NULL \/ ~HasStep(c, c.stepIndex[stepEl]) THEN c
  ELSE UpdateTask(c, c.current,
         [TaskById(c.tasks, c.current) EXCEPT !.steps[c.stepIndex[stepEl] + 1].status =
            IF @ = status THEN "running" ELSE status])

setCoworkStepStatus(c, stepEl, status) ==
  IF stepEl = NULL \/ ~HasStep(c, c.stepIndex[stepEl]) THEN c
  ELSE UpdateTask(c, c.current,
         [TaskById(c.tasks, c.current) EXCEPT !.steps[c.stepIndex[stepEl] + 1].status = status])

appendCoworkLog(c, content, targetStep) ==
  IF c.content = <<>> THEN c
  ELSE LET lastStep == IF targetStep # NULL THEN targetStep
                       ELSE c.content[Len(c.content)]
           idx == c.stepIndex[lastStep]
       IN  IF ~HasStep(c, idx) THEN c
           ELSE UpdateTask(c, c.current,
                  [TaskById(c.tasks, c.current) EXCEPT !.steps[idx + 1].log = @ \o content])

ensureCoworkStep(c, title) ==
  IF c.content = <<>> THEN appendCoworkStep(c, title, "running")
  ELSE [c EXCEPT !.ret = c.content[Len(c.content)]]

InContent(c, el) == \E i \in DOMAIN c.content : c.content[i] = el

ensureCoworkOutputStep(c, sessionId) ==
  LET cached == MapGet(c.outputSteps, sessionId)
  IN  IF cached # NULL /\ InContent(c, cached) THEN [c EXCEPT !.ret = cached]
      ELSE LET a == appendCoworkStep(c, "Assistant response", "running")
           IN  [a EXCEPT !.outputSteps = MapSet(@, sessionId, a.ret)]

\* elements.coworkTaskContent.innerHTML = ...: one new element per step, or
\* a single placeholder element with index 0 for a task without steps.
renderCoworkTaskDetails(c, id) ==
  LET n == Len(TaskById(c.tasks, id).steps)
      m == IF n = 0 THEN 1 ELSE n
      base == Len(c.stepIndex)
  IN  [c EXCEPT !.stepIndex = @ \o [k \in 1..m |-> k - 1],
                !.content = [k \in 1..m |-> base + k]]

\* The data of a cowork://event payload.  Absent fields are 0 or empty.
NoEventData ==
  [type |-> "none", id |-> NULL, state |-> "none", status |-> "running",
   content |-> <<>>, summary |-> <<>>, output |-> <<>>, ok |-> TRUE]
CoworkTerminalTypes == {"done", "error"}
CoworkEventData ==
  {[NoEventData EXCEPT !.type = "step", !.status = s] : s \in {"running", "completed"}}
  \cup {[NoEventData EXCEPT !.type = "log", !.content = <<"l">>]}
  \cup {[NoEventData EXCEPT !.type = "thinking", !.content = <<"t">>]}
  \cup {[NoEventData EXCEPT !.type = "chunk", !.content = <<"c">>]}
  \cup {[NoEventData EXCEPT !.type = "tool_status", !.id = i, !.state = "start"] :
          i \in ToolCallIds}
  \cup {[NoEventData EXCEPT !.type = "tool_status", !.id = i, !.state = "end",
                            !.summary = s, !.ok = k] :
          i \in ToolCallIds, s \in {<<>>, <<"s">>}, k \in BOOLEAN}
  \cup {[NoEventData EXCEPT !.type = "tool_result", !.id = i, !.summary = s,
                            !.output = o] :
          i \in ToolCallIds, s \in {<<>>, <<"s">>}, o \in {<<>>, <<"o">>}}
  \cup {[NoEventData EXCEPT !.type = t] : t \in CoworkTerminalTypes}

\* The tool events of a task run that interleaves several tool calls.
InterleavedCallIds == 1..MaxInterleavedCalls
CoworkToolEventData ==
  {[NoEventData EXCEPT !.type = "tool_status", !.id = i, !.state = "start"] :
     i \in InterleavedCallIds}
  \cup {[NoEventData EXCEPT !.type = "tool_status", !.id = i, !.state = "end",
                            !.summary = s, !.ok = k] :
          i \in InterleavedCallIds, s \in {<<>>, <<"s">>}, k \in BOOLEAN}
  \cup {[NoEventData EXCEPT !.type = "tool_result", !.id = i, !.summary = s,
                            !.output = o] :
          i \in InterleavedCallIds, s \in {<<>>, <<"s">>}, o \in {<<>>, <<"o">>}}

\* Variant of CoworkEventAccepted without the comparison of session ids.
CoworkEventAccepted_AnyToken(c, sessionId) == c.current # NULL

\* The listener accepts the event: a task is active and the event's
\* session_id, when it has one, is that of the active task.
CoworkEventAccepted(c, sessionId) ==
  c.current # NULL /\ (sessionId = NULL \/ sessionId = c.current)

\* sessionId is the id of the task named by data.session_id ("cowork-<id>"),
\* 0 when the payload carries none.
handleCoworkEvent(c, sessionId, ev, now) ==
  IF ~CoworkEventAccepted(c, sessionId) THEN c
  ELSE
  LET expected == c.current
      toolEl == MapGet(c.toolSteps, ev.id)
  IN
  CASE ev.type = "step" -> appendCoworkStep(c, "Working...", ev.status)
    [] ev.type = "log" -> appendCoworkLog(c, ev.content, NULL)
    [] ev.type = "thinking" ->
         LET e == ensureCoworkStep(c, "Thinking")
         IN  appendCoworkLog(e, ev.content, e.ret)
    [] ev.type = "chunk" ->
         LET e == ensureCoworkOutputStep(c, expected)
         IN  appendCoworkLog(e, ev.content, e.ret)
    [] ev.type = "tool_status" /\ ev.state = "start" ->
         LET a == appendCoworkStep([c EXCEPT !.outputSteps = MapDelete(@, expected)],
                                   "Tool", "running")
         IN  [a EXCEPT !.toolSteps = MapSet(@, ev.id, a.ret)]
    [] ev.type = "tool_status" /\ ev.state = "end" ->
         LET l == IF ev.summary # <<>> THEN appendCoworkLog(c, ev.summary, toolEl) ELSE c
         IN  IF toolEl # NULL /\ ev.ok THEN setCoworkStepStatus(l, toolEl, "completed")
             ELSE l
    [] ev.type = "tool_result" ->
         LET l == IF ev.summary # <<>> THEN appendCoworkLog(c, ev.summary, toolEl) ELSE c
         IN  IF ev.output # <<>> THEN appendCoworkLog(l, ev.output, toolEl) ELSE l
    [] ev.type = "done" ->
         LET outputStep == MapGet(c.outputSteps, expected)
             s == IF outputStep # NULL THEN setCoworkStepStatus(c, outputStep, "completed")
                  ELSE c
             t == UpdateTask(s, expected,
                    [TaskById(s.tasks, expected) EXCEPT !.status = "completed",
                                                        !.updatedAt = now])
         IN  updateCoworkTaskStatus(saveCoworkTask(t, expected))
    [] ev.type = "error" ->
         LET a == appendCoworkStep(c, "Task failed", "running")
             t == UpdateTask(a, expected,
                    [TaskById(a.tasks, expected) EXCEPT !.status = "error",
                                                        !.updatedAt = now])
         IN  updateCoworkTaskStatus(saveCoworkTask(t, expected))
    [] OTHER -> c

\* Date.now() never goes back.
DateNow(now) == now \in {coworkClock, coworkClock + 1}

showCoworkEmpty(c) == [c EXCEPT !.current = NULL]

\* The New Task and Close Task buttons.
ShowCoworkEmpty ==
  /\ coworkClicks < env.views
  /\ coworkClicks' = coworkClicks + 1
  /\ SetCw(showCoworkEmpty(Cw))
  /\ coworkEmptyHidden' = FALSE
  /\ UNCHANGED <<coworkLaunches, coworkClock, nextId, approvalVars, chatOnlyVars,
                 errorToasts>>

\* A click on a task of the task list.
ClickCoworkTask(id) ==
  /\ coworkClicks < env.views
  /\ TaskPos(coworkTasks, id) # 0
  /\ coworkClicks' = coworkClicks + 1
  /\ SetCw(updateCoworkTaskStatus(renderCoworkTaskDetails([Cw EXCEPT !.current = id], id)))
  /\ coworkEmptyHidden' = TRUE
  /\ UNCHANGED <<coworkLaunches, coworkClock, nextId, approvalVars, chatOnlyVars,
                 errorToasts>>

\* failed: how many of the awaited saves of the launch were rejected;
\* events, terminals: what the backend has emitted for the run; stale: how
\* many of these events carried session_id and arrived while another task, or
\* none, was the active one.
NewLaunch(id) == [task |-> id, pc |-> "save1", call |-> "none", events |-> 0,
                  terminals |-> 0, stale |-> 0, failed |-> 0]

\* cowork_history_upsert resolves, or is rejected where the specification
\* lets saves fail.
SaveOutcome(ok) == ok \/ env.saveFailures
Failed(ok) == IF ok THEN 0 ELSE 1

\* startCoworkTask up to its first await.
startCoworkTask(now) ==
  LET task == [id |-> nextId, status |-> "running", updatedAt |-> now, steps |-> <<>>]
      c == [Cw EXCEPT !.tasks = <<task>> \o @, !.current = nextId,
                      !.toolSteps = EmptyMap, !.outputSteps = EmptyMap]
  IN  /\ DateNow(now)
      /\ coworkClock' = now
      /\ SetCw(saveCoworkTask(c, nextId))
      /\ coworkLaunches' = Append(coworkLaunches, NewLaunch(nextId))
      /\ nextId' = nextId + 1
      /\ UNCHANGED <<coworkEmptyHidden, coworkClicks, approvalVars, chatOnlyVars,
                     errorToasts>>

\* The Send button of the new-task view, with a non-blank prompt.
StartCoworkTask(now) ==
  /\ Len(coworkLaunches) < env.launches
  /\ ~coworkEmptyHidden
  /\ startCoworkTask(now)

\* After the first save: the task view is shown and the first step appended.
startCoworkTaskAfterSave(l, ok) ==
  /\ l \in DOMAIN coworkLaunches
  /\ coworkLaunches[l].pc = "save1"
  /\ SaveOutcome(ok)
  /\ LET r == saveCoworkTaskResume(Cw, coworkLaunches[l].task, ok)
         a == appendCoworkStep([r EXCEPT !.content = <<>>],
                               "Understanding your request", "running")
     IN  SetCw(saveCoworkTask(a, coworkLaunches[l].task))
  /\ coworkEmptyHidden' = TRUE
  /\ coworkLaunches' = [coworkLaunches EXCEPT ![l].pc = "save2",
                                              ![l].failed = @ + Failed(ok)]
  /\ UNCHANGED <<coworkClock, coworkClicks, nextId, approvalVars, chatOnlyVars,
                 errorToasts>>

\* After the second save runCoworkTask begins: invoke('agent_browser_status').
runCoworkTask(l, ok) ==
  /\ l \in DOMAIN coworkLaunches
  /\ coworkLaunches[l].pc = "save2"
  /\ SaveOutcome(ok)
  /\ SetCw(saveCoworkTaskResume(Cw, coworkLaunches[l].task, ok))
  /\ coworkLaunches' = [coworkLaunches EXCEPT ![l].pc = "browser",
                                              ![l].failed = @ + Failed(ok)]
  /\ UNCHANGED <<coworkEmptyHidden, coworkClock, coworkClicks, nextId, approvalVars,
                 chatOnlyVars, errorToasts>>

\* agent_browser_status settles either way: invoke('cowork_stream').
runCoworkTaskAfterBrowserStatus(l) ==
  /\ l \in DOMAIN coworkLaunches
  /\ coworkLaunches[l].pc = "browser"
  /\ coworkLaunches' = [coworkLaunches EXCEPT ![l].pc = "stream", ![l].call = "pending"]
  /\ UNCHANGED <<coworkVarsButLaunches, nextId, approvalVars, chatOnlyVars, errorToasts>>

\* cowork_stream settles: on rejection the catch of startCoworkTask marks
\* the task as failed and saves it.
CoworkStreamCallSettles(l, ok, now) ==
  /\ l \in DOMAIN coworkLaunches
  /\ coworkLaunches[l].pc = "stream"
  /\ env.late \/ ok \/ coworkLaunches[l].terminals = 0
  /\ IF ok
     THEN /\ now = coworkClock
          /\ coworkLaunches' = [coworkLaunches EXCEPT ![l].pc = "end",
                                                      ![l].call = "resolved"]
          /\ UNCHANGED <<coworkVarsButLaunches>>
     ELSE LET id == coworkLaunches[l].task
              t == UpdateTask(Cw, id, [TaskById(coworkTasks, id) EXCEPT
                                         !.status = "error", !.updatedAt = now])
          IN  /\ DateNow(now)
              /\ coworkClock' = now
              /\ SetCw(saveCoworkTask(t, id))
              /\ coworkLaunches' = [coworkLaunches EXCEPT ![l].pc = "save3",
                                                          ![l].call = "rejected"]
              /\ UNCHANGED <<coworkEmptyHidden, coworkClicks>>
  /\ UNCHANGED <<nextId, approvalVars, chatOnlyVars, errorToasts>>

\* After the save of the catch block: updateCoworkTaskStatus(task).
startCoworkTaskAfterCatchSave(l, ok) ==
  /\ l \in DOMAIN coworkLaunches
  /\ coworkLaunches[l].pc = "save3"
  /\ SaveOutcome(ok)
  /\ SetCw(updateCoworkTaskStatus(saveCoworkTaskResume(Cw, coworkLaunches[l].task, ok)))
  /\ coworkLaunches' = [coworkLaunches EXCEPT ![l].pc = "end",
                                              ![l].failed = @ + Failed(ok)]
  /\ UNCHANGED <<coworkEmptyHidden, coworkClock, coworkClicks, nextId, approvalVars,
                 chatOnlyVars, errorToasts>>

TotalTaskEvents ==
  SumOf([l \in DOMAIN coworkLaunches |-> coworkLaunches[l].events], Len(coworkLaunches))

\* The run of launch l has not ended: no done or error event yet and the
\* start call has not been rejected.
RunLive(l) == coworkLaunches[l].terminals = 0 /\ coworkLaunches[l].call # "rejected"

\* The backend emits an event of the run started by launch l; tagged: the
\* payload carries session_id.
CoworkEvent(l, tagged, ev, now) ==
  LET sessionId == IF tagged THEN coworkLaunches[l].task ELSE NULL
      isTerminal == ev.type \in CoworkTerminalTypes
  IN
  /\ l \in DOMAIN coworkLaunches
  /\ coworkLaunches[l].call # "none"
  /\ env.late \/ RunLive(l)
  /\ tagged \/ env.untagged
  /\ TotalTaskEvents < env.taskEvents
  /\ IF isTerminal /\ CoworkEventAccepted(Cw, sessionId)
     THEN DateNow(now) ELSE now = coworkClock
  /\ coworkClock' = now
  /\ SetCw(handleCoworkEvent(Cw, sessionId, ev, now))
  /\ IF ev.type = "error" /\ CoworkEventAccepted(Cw, sessionId)
     THEN showError(BackendMessage) ELSE UNCHANGED errorToasts
  /\ coworkLaunches' = [coworkLaunches EXCEPT
                          ![l].events = @ + 1,
                          ![l].terminals = @ + (IF isTerminal THEN 1 ELSE 0),
                          ![l].stale = @ + (IF tagged /\ currentCoworkTask # sessionId
                                            THEN 1 ELSE 0)]
  /\ UNCHANGED <<coworkEmptyHidden, coworkClicks, nextId, approvalVars, chatOnlyVars>>

InitCowork ==
  /\ coworkTasks = <<>>
  /\ currentCoworkTask = NULL
  /\ coworkTaskContent = <<>>
  /\ coworkStepIndex = <<>>
  /\ coworkToolSteps = EmptyMap
  /\ coworkOutputSteps = EmptyMap
  /\ coworkSaves = <<>>
  /\ coworkLaunches = <<>>
  /\ coworkEmptyHidden = FALSE
  /\ coworkClock = 1
  /\ coworkClicks = 0

\* The state after init() for a logged-in user with no stored sessions or tasks.
InitProgram ==
  /\ InitApproval
  /\ InitChat
  /\ InitCowork
  /\ errorToasts = {}

\* What the environment does at most.  streams: messages sent; chunks and
\* terminals: events emitted over all streams; duplicates: whether a stream's
\* end may be signalled more than once (a repeated terminal event, or a
\* terminal event together with a rejected start call).  launches: co-work
\* tasks started; opens: openFile and openSession calls; loads:
\* session_messages calls; deletes: session_delete calls; toggles: pin clicks; toolEvents:
\* tool_status and tool_result events; thinks: thinking events per stream;
\* kinds: whether a stream records the kind of its last terminal event;
\* saveFailures: whether cowork_history_upsert calls may be rejected; taskEvents: events
\* emitted over all task runs; views:
\* co-work navigation clicks; late: whether a task run emits events after
\* its done or error event; untagged: whether task-run events may lack
\* session_id.
EnvIdle ==
  [streams |-> 0, chunks |-> 0, terminals |-> 0, duplicates |-> FALSE, opens |-> 0, loads |-> 0,
   deletes |-> 0, toggles |-> 0, toolEvents |-> 0, thinks |-> 0, kinds |-> FALSE, saveFailures |-> FALSE,
   launches |-> 0, taskEvents |-> 0, views |-> 0, late |-> FALSE,
   untagged |-> FALSE]
EnvChat ==
  [EnvIdle EXCEPT !.streams = MaxStreams, !.chunks = MaxChunks,
                  !.terminals = MaxTerminalEvents, !.duplicates = TRUE]
EnvStarts ==
  [EnvIdle EXCEPT !.streams = MaxStarts, !.terminals = MaxTerminalEvents,
                  !.duplicates = TRUE]
EnvTabs ==
  [EnvIdle EXCEPT !.streams = MaxStreams, !.chunks = MaxChunks,
                  !.terminals = MaxStreams]
EnvCowork ==
  [EnvIdle EXCEPT !.launches = 1, !.taskEvents = MaxTaskEvents,
                  !.views = MaxTaskClicks, !.late = TRUE]
EnvLaunches ==
  [EnvIdle EXCEPT !.launches = MaxLaunches, !.taskEvents = MaxLaunchEvents,
                  !.views = MaxTaskClicks]

Init == InitProgram /\ env = EnvChat

NextApproval ==
  \/ \E r \in {NULL} \cup RequestIds : ToolApprovalEvent(r)
  \/ ClickApprove
  \/ ClickReject
  \/ PressEscape
  \/ \E i \in 1..MaxRespondInvocations, err \in {"none"} \cup ErrKinds :
        ApprovalCallSettles(i, err)

SpecApproval == Init /\ [][NextApproval]_vars

\* Chat streaming: messages, stream events and call results.
NextChat ==
  \/ \E text \in Prompts : SendMessage(text)
  \/ \E s \in 1..MaxStarts, text \in ChunkContents : ChunkEvent(s, text)
  \/ \E s \in 1..MaxStarts, kind \in TerminalKinds : TerminalEvent(s, kind)
  \/ \E s \in 1..MaxStarts, err \in {"none", "withMessage"} :
        ChatStreamCallSettles(s, err)
  \/ \E i \in DOMAIN saveCalls, err \in {"none", "withMessage"} :
        SaveCallSettles(i, err)

SpecChat == Init /\ [][NextChat]_vars

\* Stream starts and ends only, with draft tabs.
NextStarts ==
  \/ \E text \in Prompts : SendMessage(text)
  \/ CreateNewSessionTab
  \/ \E s \in 1..MaxStarts, kind \in TerminalKinds : TerminalEvent(s, kind)
  \/ \E s \in 1..MaxStarts, err \in {"none", "withMessage"} :
        ChatStreamCallSettles(s, err)

InitStarts == InitProgram /\ env = EnvStarts
SpecStarts == InitStarts /\ [][NextStarts]_vars

\* Chat streaming with the tab bar in use, each stream ending once.
NextTabs ==
  \/ NextChat
  \/ CreateNewSessionTab
  \/ \E path \in 1..MaxIds : ActivateTab(path)
  \/ \E path \in 1..MaxIds : CloseTab(path)
  \/ CloseChat

InitTabs == InitProgram /\ env = EnvTabs
SpecTabs == InitTabs /\ [][NextTabs]_vars

\* Opening and closing tabs, with one stored session.
TabKeys == (1..MaxIds) \cup FilePaths
\* The step issues no session_messages call beyond the budget.
LoadsWithinBudget == Len(messageLoads') <= env.loads
NextOpen ==
  \/ \E path \in FilePaths : OpenFile(path)
  \/ \E i \in 1..MaxOpens, ok \in BOOLEAN : ReadFileSettles(i, ok)
  \/ \E sid \in 1..MaxIds : OpenSession(sid) /\ LoadsWithinBudget
  \/ \E i \in 1..MaxOpens, ok \in BOOLEAN :
        ApplyWorkDirSettles(i, ok) /\ LoadsWithinBudget
  \/ \E i \in DOMAIN messageLoads, outcome \in {"empty", "messages", "error"} :
        MessageLoadSettles(i, outcome)
  \/ CreateNewSessionTab
  \/ \E text \in Prompts : SendMessage(text)
  \/ \E s \in 1..MaxStarts, err \in {"none", "withMessage"} :
        ChatStreamCallSettles(s, err)
  \/ \E path \in TabKeys : ActivateTab(path) /\ LoadsWithinBudget
  \/ \E path \in TabKeys : CloseTab(path) /\ LoadsWithinBudget

EnvOpen == [EnvIdle EXCEPT !.opens = MaxOpens, !.streams = 1, !.loads = MaxLoads]
InitOpen ==
  /\ InitApproval
  /\ InitChatStored(1)
  /\ InitCowork
  /\ errorToasts = {}
  /\ env = EnvOpen
SpecOpen == InitOpen /\ [][NextOpen]_vars

\* One production with its answer and thinking texts.
NextProduction ==
  \/ \E text \in Prompts : SendMessage(text)
  \/ \E s \in 1..MaxStarts, text \in ChunkContents : ChunkEvent(s, text)
  \/ \E s \in 1..MaxStarts, text \in ThinkingContents : ThinkingEvent(s, text)
  \/ AnimationFrame
  \/ \E s \in 1..MaxStarts, kind \in TerminalKinds : TerminalEvent(s, kind)
  \/ \E s \in 1..MaxStarts, err \in {"none", "withMessage"} :
        ChatStreamCallSettles(s, err)
  \/ \E i \in DOMAIN saveCalls, err \in {"none", "withMessage"} :
        SaveCallSettles(i, err)

EnvProduction ==
  [EnvIdle EXCEPT !.streams = MaxStreams, !.chunks = MaxChunks, !.thinks = MaxThinking,
                  !.terminals = MaxStreams, !.kinds = TRUE]
InitProduction == InitProgram /\ env = EnvProduction
SpecProduction == InitProduction /\ [][NextProduction]_vars
\* The same, with every backend call eventually resolving or rejecting.
InitProductionFair == InitProgram /\ env = EnvProduction
CallsSettle ==
  /\ WF_vars(\E s \in 1..MaxStarts, err \in {"none", "withMessage"} :
               ChatStreamCallSettles(s, err))
  /\ WF_vars(\E i \in 1..MaxSaves, err \in {"none", "withMessage"} :
               SaveCallSettles(i, err))
SpecProductionFair == InitProductionFair /\ [][NextProduction]_vars /\ CallsSettle

\* The tool messages of a chat stream.
NextTools ==
  \/ \E text \in Prompts : SendMessage(text)
  \/ \E s \in 1..MaxStarts, data \in ToolStatusData : ToolStatusEvent(s, data)
  \/ \E s \in 1..MaxStarts, data \in ToolResultData : ToolResultEvent(s, data)

EnvTools == [EnvIdle EXCEPT !.streams = 1, !.toolEvents = MaxToolEvents]
InitTools == InitProgram /\ env = EnvTools
SpecTools == InitTools /\ [][NextTools]_vars

\* The session list: opening, pinning and deleting stored sessions.
NextSessionList ==
  \/ \E sid \in 1..MaxIds : OpenSession(sid) /\ LoadsWithinBudget
  \/ \E i \in 1..MaxOpens, ok \in BOOLEAN :
        ApplyWorkDirSettles(i, ok) /\ LoadsWithinBudget
  \/ \E path \in TabKeys : ActivateTab(path) /\ LoadsWithinBudget
  \/ \E sid \in 1..MaxIds : TogglePinnedSession(sid)
  \/ \E sid \in 1..MaxIds : DeleteSession(sid)
  \/ \E i \in 1..MaxDeletes, ok \in BOOLEAN :
        SessionDeleteSettles(i, ok) /\ LoadsWithinBudget

EnvSessionList ==
  [EnvIdle EXCEPT !.opens = MaxOpens, !.loads = 2 * MaxOpens, !.deletes = MaxDeletes,
                  !.toggles = MaxToggles]
InitSessionList ==
  /\ InitApproval
  /\ InitChatStored(MaxIds)
  /\ InitCowork
  /\ errorToasts = {}
  /\ env = EnvSessionList
SpecSessionList == InitSessionList /\ [][NextSessionList]_vars

\* The co-work task runner.
NextCowork ==
  \/ \E now \in 1..(coworkClock + 1) : StartCoworkTask(now)
  \/ \E l \in 1..MaxLaunches, ok \in BOOLEAN : startCoworkTaskAfterSave(l, ok)
  \/ \E l \in 1..MaxLaunches, ok \in BOOLEAN : runCoworkTask(l, ok)
  \/ \E l \in 1..MaxLaunches : runCoworkTaskAfterBrowserStatus(l)
  \/ \E l \in 1..MaxLaunches, ok \in BOOLEAN, now \in 1..(coworkClock + 1) :
        CoworkStreamCallSettles(l, ok, now)
  \/ \E l \in 1..MaxLaunches, ok \in BOOLEAN : startCoworkTaskAfterCatchSave(l, ok)
  \/ \E l \in 1..MaxLaunches, tagged \in BOOLEAN, ev \in CoworkEventData,
         now \in 1..(coworkClock + 1) : CoworkEvent(l, tagged, ev, now)
  \/ ShowCoworkEmpty
  \/ \E id \in 1..MaxLaunches : ClickCoworkTask(id)

\* One task run with all its events, late ones included.
InitCoworkSpec == InitProgram /\ env = EnvCowork
SpecCowork == InitCoworkSpec /\ [][NextCowork]_vars

\* Launches whose saves may fail.
EnvSaves ==
  [EnvIdle EXCEPT !.launches = MaxLaunches, !.taskEvents = MaxLaunchEvents,
                  !.saveFailures = TRUE]
InitSaves == InitProgram /\ env = EnvSaves
NextSaves ==
  \/ \E now \in 1..(coworkClock + 1) : StartCoworkTask(now)
  \/ \E l \in 1..MaxLaunches, ok \in BOOLEAN : startCoworkTaskAfterSave(l, ok)
  \/ \E l \in 1..MaxLaunches, ok \in BOOLEAN : runCoworkTask(l, ok)
  \/ \E l \in 1..MaxLaunches : runCoworkTaskAfterBrowserStatus(l)
  \/ \E l \in 1..MaxLaunches, ok \in BOOLEAN, now \in 1..(coworkClock + 1) :
        CoworkStreamCallSettles(l, ok, now)
  \/ \E l \in 1..MaxLaunches, ok \in BOOLEAN : startCoworkTaskAfterCatchSave(l, ok)
  \/ \E l \in 1..MaxLaunches, ev \in CoworkEventData, now \in 1..(coworkClock + 1) :
        CoworkEvent(l, TRUE, ev, now)
SpecSaves == InitSaves /\ [][NextSaves]_vars

\* One task run and one chat stream, each interleaving the events of several
\* tool calls.
EnvToolRun ==
  [EnvIdle EXCEPT !.launches = 1, !.taskEvents = MaxTaskEvents, !.streams = 1,
                  !.toolEvents = MaxInterleavedCalls]
InitToolRun == InitProgram /\ env = EnvToolRun
NextToolRun ==
  \/ \E now \in 1..(coworkClock + 1) : StartCoworkTask(now)
  \/ \E l \in 1..MaxLaunches, ok \in BOOLEAN : startCoworkTaskAfterSave(l, ok)
  \/ \E l \in 1..MaxLaunches, ok \in BOOLEAN : runCoworkTask(l, ok)
  \/ \E l \in 1..MaxLaunches : runCoworkTaskAfterBrowserStatus(l)
  \/ \E l \in 1..MaxLaunches, ev \in CoworkToolEventData : CoworkEvent(l, TRUE, ev, coworkClock)
  \/ SendMessage(<<"a">>)
  \/ \E s \in 1..MaxStarts, data \in InterleavedStatusData : ToolStatusEvent(s, data)
  \/ \E s \in 1..MaxStarts, data \in InterleavedResultData : ToolResultEvent(s, data)
SpecToolRun == InitToolRun /\ [][NextToolRun]_vars

\* The file editor with two files and one stored session.
EditTabKeys == {1} \cup WorkDirPaths
NextEdit ==
  \/ \E path \in WorkDirPaths : OpenFile(path)
  \/ \E i \in 1..MaxEditOpens, ok \in BOOLEAN : ReadFileSettles(i, ok)
  \/ OpenSession(1) /\ LoadsWithinBudget
  \/ \E i \in 1..MaxEditOpens, ok \in BOOLEAN :
        ApplyWorkDirSettles(i, ok) /\ LoadsWithinBudget
  \/ \E path \in EditTabKeys : ActivateTab(path) /\ LoadsWithinBudget
  \/ \E path \in EditTabKeys : CloseTab(path) /\ LoadsWithinBudget
  \/ EnterEditMode
  \/ TypeInEditor
  \/ CancelEdit
  \/ SaveFile
  \/ \E i \in 1..MaxWrites, ok \in BOOLEAN : WriteFileSettles(i, ok)

EnvEdit == [EnvIdle EXCEPT !.opens = MaxEditOpens, !.loads = MaxLoads]
InitEdit ==
  /\ InitApproval
  /\ InitChatStored(1)
  /\ InitCowork
  /\ errorToasts = {}
  /\ env = EnvEdit
SpecEdit == InitEdit /\ [][NextEdit]_vars

\* Several launches, each run ending once.
InitLaunches == InitProgram /\ env = EnvLaunches
SpecLaunches == InitLaunches /\ [][NextCowork]_vars
\* The same, with every pending handler, settlement and click eventually run.
InitLaunchesFair == InitProgram /\ env = EnvLaunches
SpecLaunchesFair == InitLaunchesFair /\ [][NextCowork]_vars /\ WF_vars(NextCowork)

Next ==
  NextApproval \/ NextTabs \/ NextProduction \/ NextOpen \/ NextTools \/ NextSessionList
    \/ NextCowork \/ NextSaves \/ NextToolRun \/ NextEdit
Spec == Init /\ [][Next]_vars

\* ===================================================== approval gate claims
ResponsesFor(r) == {i \in DOMAIN approvalCalls : approvalCalls[i].requestId = r}

\* C1: for every approval request id, at most one tool_approval_respond call
\* carrying that id is ever issued, however often respondToolApproval is
\* invoked before the first call returns, and once a call for the id has
\* returned the id is no longer pending.
C1_ExactlyOneResponse ==
  \A r \in RequestIds :
    /\ Cardinality(ResponsesFor(r)) <= 1
    /\ (\E i \in ResponsesFor(r) : approvalCalls[i].result # "pending")
          => pendingApprovalId # r

\* C2: a tool_approval event with id r makes r the pending id, and r stays
\* pending until a later tool_approval event replaces it or a response
\* carrying r has been sent; no other step clears it.
C2_PendingKeptUntilResponded ==
  [][\A r \in RequestIds :
       /\ ToolApprovalEvent(r) => pendingApprovalId' = r
       /\ (pendingApprovalId = r /\ pendingApprovalId' # r)
            => \/ \E q \in {NULL} \cup RequestIds : ToolApprovalEvent(q)
               \/ ResponsesFor(r) # {}]_vars

\* C3: when a tool_approval_respond call settles, failed or not, the pending
\* id is cleared and the dialog closed; a failure is reported by showError; and the gate never holds an id one of whose response
\* attempts has finished.
C3_SettleClears ==
  [][\A i \in DOMAIN approvalCalls :
       (approvalCalls[i].result = "pending" /\ approvalCalls'[i].result # "pending")
         => /\ pendingApprovalId' = NULL
            /\ toolApprovalModalOpen' = FALSE
            /\ approvalCalls'[i].result = "failed"
                 => \E m \in {BackendMessage, "Failed to submit approval"} :
                       errorToasts' = errorToasts \cup {m}
            /\ approvalCalls'[i].result = "ok"
                 => errorToasts' = errorToasts]_vars
C3_NoFinishedIdHeld ==
  \A i \in DOMAIN approvalCalls :
    approvalCalls[i].result # "pending" => pendingApprovalId # approvalCalls[i].requestId
C3_FailureStillClears == C3_SettleClears /\ []C3_NoFinishedIdHeld
\* A respond call has failed and the gate is empty and closed.
C3_Witness ==
  /\ \E i \in DOMAIN approvalCalls : approvalCalls[i].result = "failed"
  /\ errorToasts # {}
  /\ pendingApprovalId = NULL
  /\ ~toolApprovalModalOpen

\* C4: an invocation of respondToolApproval while no id is pending issues no
\* backend call and changes nothing (the invocation counter is the only
\* trace of it).
C4_RespondWithoutPendingIsNoOp ==
  [][(respondInvocations' = respondInvocations + 1 /\ pendingApprovalId = NULL)
       => UNCHANGED <<pendingApprovalId, toolApprovalModalOpen, approvalCalls,
                      nextRequestId, errorToasts, nonApprovalVars>>]_vars
\* respondToolApproval has been invoked more often than calls were issued:
\* some invocation found no pending id.
C4_Witness == respondInvocations > Len(approvalCalls)
\* ============================================================== chat claims
SavesFor(s) == {i \in DOMAIN saveCalls : saveCalls[i].stream = s}
\* The backend has signalled the end of stream s.
StreamEnded(s) == ~StreamLive(s)
\* finishStreaming has run to its end for stream s.
ProductionFinished(s) ==
  StreamEnded(s) /\ \A i \in SavesFor(s) : saveCalls[i].result # "pending"

\* C5: the content of every session_save_message call made at the end of a
\* chat stream is the concatenation, in arrival order, of the contents of
\* that stream's chunk events.
C5_SavedContentIsConcatenation ==
  \A i \in DOMAIN saveCalls :
    saveCalls[i].content = chatStreams[saveCalls[i].stream].fed

\* C6: for each chat stream at most one session_save_message call is made,
\* however many terminal events and start-call rejections are delivered for
\* it; and a stream that produced non-blank text and has ended has one.
C6_OneAssistantMessagePerStream ==
  \A s \in DOMAIN chatStreams :
    /\ Cardinality(SavesFor(s)) <= 1
    /\ (StreamEnded(s) /\ Trim(chatStreams[s].fed) # <<>>) => SavesFor(s) # {}

\* C7: a terminal event dispatched for a stream whose production has already
\* finished issues no save and leaves isStreaming, the text buffer and the
\* live message element unchanged.
C7_LateTerminalIsNoOp ==
  [][\A s \in DOMAIN chatStreams :
       (chatStreams'[s].terminals = chatStreams[s].terminals + 1
          /\ ProductionFinished(s))
         => UNCHANGED <<saveCalls, isStreaming, currentTextBuffer, currentMessageEl>>]_vars

\* C8: at most one chat stream is in progress: chat_stream is never issued
\* while an earlier stream has neither ended nor failed to start.
C8_AtMostOneStreamInProgress ==
  Cardinality({s \in DOMAIN chatStreams : StreamLive(s)}) <= 1
\* The production has ended: isStreaming is false, both buffers are empty
\* and both live elements are released.
ProductionEnded ==
  /\ ~isStreaming
  /\ currentTextBuffer = <<>>
  /\ currentThinkingBuffer = <<>>
  /\ currentMessageEl = NULL
  /\ currentThinkingEl = NULL

\* C21: a cancelled event and a done event are handled alike and raise no
\* error: with no session or a blank answer buffer the event issues no save
\* and ends the production at once; otherwise it issues one save of the
\* buffer, and the production ends when that save settles.
C21_CancelledEndsProduction ==
  /\ [][\A s \in DOMAIN chatStreams :
          (chatStreams'[s].terminals = chatStreams[s].terminals + 1
             /\ chatStreams'[s].kind \in {"done", "cancelled"})
            => /\ errorToasts' = errorToasts
               /\ IF currentSession = NULL \/ Trim(currentTextBuffer) = <<>>
                  THEN saveCalls' = saveCalls /\ ProductionEnded'
                  ELSE /\ Len(saveCalls') = Len(saveCalls) + 1
                       /\ saveCalls'[Len(saveCalls')].content = currentTextBuffer
                       /\ saveCalls'[Len(saveCalls')].result = "pending"]_vars
  /\ [][\A i \in DOMAIN saveCalls :
          (saveCalls[i].result = "pending" /\ saveCalls'[i].result # "pending")
            => ProductionEnded']_vars

\* A stream that received a thinking text and only whitespace as its answer
\* was cancelled: the production has ended and nothing was saved for it.
C21_Witness ==
  \E s \in DOMAIN chatStreams :
    /\ chatStreams[s].kind = "cancelled"
    /\ chatStreams[s].fed = <<Blank>>
    /\ chatStreams[s].thinks > 0
    /\ SavesFor(s) = {}
    /\ ProductionEnded

\* C22: when the chat_stream call of a stream is rejected, the handler leaves
\* isStreaming false, the answer buffer empty and the inputs enabled, and
\* issues no save of an assistant message.
C22_RejectedStartRolledBack ==
  [][\A s \in DOMAIN chatStreams :
       (chatStreams[s].call = "pending" /\ chatStreams'[s].call = "rejected")
         => /\ ~isStreaming'
            /\ currentTextBuffer' = <<>>
            /\ inputsEnabled'
            /\ saveCalls' = saveCalls]_vars

\* =========================================================== co-work claims

RunningTasks == {i \in DOMAIN coworkTasks : coworkTasks[i].status = "running"}
TerminalStatuses == {"completed", "error"}
StepsOf(tasks, id) == TaskById(tasks, id).steps

\* C9: the task list never holds two tasks in status running: startCoworkTask
\* does not launch a task while an earlier one is still running.
C9_AtMostOneRunningTask == Cardinality(RunningTasks) <= 1

\* C10: a task-run event tagged for a task whose status is completed or
\* error leaves that task's step list as it was: no step is appended and no
\* step's log or status changes.
C10_NoStepMutationAfterTerminal ==
  [][\A l \in DOMAIN coworkLaunches :
       (/\ coworkLaunches'[l].events = coworkLaunches[l].events + 1
        /\ TaskById(coworkTasks, coworkLaunches[l].task).status \in TerminalStatuses)
         => StepsOf(coworkTasks', coworkLaunches[l].task)
              = StepsOf(coworkTasks, coworkLaunches[l].task)]_vars
\* C11: a task's status is absorbing once terminal: a task that is completed
\* or error keeps that status in every later step, whatever events or
\* start-call results follow.
C11_TerminalStatusAbsorbing ==
  [][\A i \in DOMAIN coworkTasks :
       coworkTasks[i].status \in TerminalStatuses
         => TaskById(coworkTasks', coworkTasks[i].id).status = coworkTasks[i].status]_vars
\* C12: a task-run event that carries a session id other than that of the
\* active task, or that carries one while no task is active, is dropped: the
\* task list (steps, status, timestamps, order) is unchanged and no
\* cowork_history_upsert is issued.
C12_MismatchedEventDropped ==
  [][\A l \in DOMAIN coworkLaunches :
       coworkLaunches'[l].stale = coworkLaunches[l].stale + 1
         => UNCHANGED <<coworkTasks, currentCoworkTask, coworkSaves>>]_vars

\* Two tasks have been launched and an event tagged for one of them has
\* arrived while it was not the active task.
C12_Witness ==
  /\ \E l \in DOMAIN coworkLaunches : coworkLaunches[l].stale > 0
  /\ Len(coworkTasks) > 1
\* ================================================================ tab claims
\* C13: the open-tab list holds at most one tab per (key, kind) pair.
C13_OneTabPerKeyAndKind ==
  \A i, j \in DOMAIN openTabs :
    (openTabs[i].path = openTabs[j].path /\ openTabs[i].type = openTabs[j].type) => i = j
CountPath(tabs, path) == Cardinality({i \in DOMAIN tabs : tabs[i].path = path})

\* C14: a step that closes the active tab, at position i of N tabs, leaves
\* the other tabs in their order; if N > 1 the active tab becomes the tab at
\* position min(i, N - 1) of the remaining list (counting from 1), and if
\* N = 1 the active tab and the current session are cleared.
C14_CloseActiveSelectsNeighbour ==
  [][(/\ activeTab # NULL
      /\ CountPath(openTabs', activeTab) < CountPath(openTabs, activeTab))
       => LET i == TabIndex(openTabs, activeTab)
              N == Len(openTabs)
          IN  /\ openTabs' = RemoveAt(openTabs, i)
              /\ IF N > 1
                 THEN activeTab' = openTabs'[Min(i, N - 1)].path
                 ELSE activeTab' = NULL /\ currentSession' = NULL]_vars

\* The last of three tabs was active and has been closed, and the tab now
\* last is the active one.
C14_Witness ==
  /\ closedActive = [index |-> 3, count |-> 3]
  /\ Len(openTabs) = 2
  /\ activeTab = openTabs[2].path
\* C15: in every state, activateTab with a key that matches no open tab
\* leaves the active-tab pointer, the current session and the open-tab list
\* as they are.
C15_ActivateAbsentKeyIsNoOp ==
  \A path \in TabKeys \ OpenPaths :
    LET u == activateTab(Ui, path)
    IN  /\ u.activeTab = activeTab
        /\ u.currentSession = currentSession
        /\ u.openTabs = openTabs
\* A step promotes the draft tab at position k.
Promotes(k) ==
  /\ k \in DOMAIN openTabs /\ k \in DOMAIN openTabs'
  /\ openTabs'[k].path = openTabs[k].path
  /\ openTabs[k].isNew /\ ~openTabs'[k].isNew

C16_PromotionInPlace ==
  [][\A k \in 1..MaxIds :
       Promotes(k) => /\ TabPaths(openTabs') = TabPaths(openTabs)
                      /\ activeTab' = openTabs[k].path
                      /\ openTabs'[k].session = openTabs[k].path
                      /\ currentSession' = openTabs[k].path]_vars

C16_NeverHalfBound ==
  \A k \in DOMAIN openTabs :
    (openTabs[k].type = "session" /\ ~openTabs[k].isNew) => openTabs[k].session # NULL

\* C16: the step that promotes a draft tab leaves the sequence of tab keys
\* unchanged, keeps the tab active and binds it to the session whose id is
\* the tab key; and in no state is a session tab non-draft without a session.
C16_DraftBoundInPlace == C16_PromotionInPlace /\ []C16_NeverHalfBound

\* A draft tab in second position has been promoted by a first message.
C16_Witness ==
  \E s \in DOMAIN chatStreams :
    /\ chatStreams[s].starter = "startNewSessionInTab"
    /\ Len(openTabs) >= 2
    /\ openTabs[2].path = chatStreams[s].sessionId
    /\ ~openTabs[2].isNew
    /\ openTabs[2].session = openTabs[2].path
    /\ activeTab = openTabs[2].path
\* ====================================================== co-work step claims
\* C20: over every step of the program, each step of each task stays in the
\* task's step list and, once its status is completed, keeps that status.
C20_StepStatusNeverReverts ==
  [][\A i \in DOMAIN coworkTasks :
       TaskPos(coworkTasks', coworkTasks[i].id) # 0 =>
         \A k \in DOMAIN coworkTasks[i].steps :
           /\ k \in DOMAIN StepsOf(coworkTasks', coworkTasks[i].id)
           /\ coworkTasks[i].steps[k].status = "completed" =>
                StepsOf(coworkTasks', coworkTasks[i].id)[k].status = "completed"]_vars

\* A step created running by a tool_status start or by a chunk has been set
\* to completed, and a later event of the task run was handled.
C20_Witness ==
  \E i \in DOMAIN coworkTasks, k \in 1..MaxTaskEvents :
    /\ k \in DOMAIN coworkTasks[i].steps
    /\ k + 1 \in DOMAIN coworkTasks[i].steps
    /\ coworkTasks[i].steps[k].title \in {"Tool", "Assistant response"}
    /\ coworkTasks[i].steps[k].status = "completed"

\* ======================================================= session list claims
\* C17: when a session_delete call for a session resolves, that session is
\* absent from the session list, from the pinned list and from the open
\* tabs once the handler has run.
C17_DeletedSessionEvicted ==
  [][\A i \in DOMAIN sessionDeletes :
       (sessionDeletes[i].result = "pending" /\ sessionDeletes'[i].result = "resolved")
         => /\ IndexOf(sessions', sessionDeletes[i].session) = 0
            /\ IndexOf(pinnedSessions', sessionDeletes[i].session) = 0
            /\ TabIndex(openTabs', sessionDeletes[i].session) = 0]_vars

\* C18: in every state and for every session id, togglePinnedSession applied
\* twice to the pinned list gives the pinned list back, contents and order.
C18_ToggleTwiceIsIdentity ==
  \A sid \in 1..MaxIds :
    togglePinnedSession(togglePinnedSession(pinnedSessions, sid), sid) = pinnedSessions
\* ======================================================= tool message claims
SummaryOnlyResults == {d \in ToolResultData : d.summary # <<>> /\ d.output = <<>>}

\* C19: in every state of the chat, dispatching a summary-only tool_result
\* twice leaves the same tool messages as dispatching it once; and a
\* tool_result without output whose summary already occurs in the text of
\* its tool-call id leaves that text as it was.
C19_SummaryNotInsertedTwice ==
  /\ [](\A d \in SummaryOnlyResults, o \in 1..MaxIds :
          handleToolResult(handleToolResult(Tm, o, d), o, d) = handleToolResult(Tm, o, d))
  /\ [][\A d \in SummaryOnlyResults :
          (/\ toolEvents' = Append(toolEvents, [type |-> "tool_result", data |-> d])
           /\ d.tool_call_id \in DOMAIN toolMessages
           /\ Includes(toolMessages[d.tool_call_id].text, d.summary))
            => toolMessages' = toolMessages]_vars

\* The same summary-only tool_result was dispatched twice in a row for a
\* tool-call id, and its summary is in the text of that id.
C19_Witness ==
  \E i \in DOMAIN toolEvents :
    /\ i + 1 \in DOMAIN toolEvents
    /\ toolEvents[i] = toolEvents[i + 1]
    /\ toolEvents[i].type = "tool_result"
    /\ toolEvents[i].data \in SummaryOnlyResults
    /\ toolEvents[i].data.tool_call_id # NULL
    /\ toolEvents[i].data.summary = <<"s">>
    /\ toolMessages[toolEvents[i].data.tool_call_id].text =
         Tool \o <<Newline>> \o toolEvents[i].data.summary

\* ====================================================== co-work save claims
\* The task with this id is new, or has another status or another number of
\* steps than before the step.
TaskChanged(id) ==
  \/ TaskPos(coworkTasks, id) = 0
  \/ TaskById(coworkTasks', id).status # TaskById(coworkTasks, id).status
  \/ Len(StepsOf(coworkTasks', id)) # Len(StepsOf(coworkTasks, id))

\* C24: every step of the program that adds a task, appends a step to a task
\* or changes a task's status issues, in that step, a cowork_history_upsert
\* carrying the task's new steps and status.
C24_EveryChangeIsSaved ==
  [][\A i \in DOMAIN coworkTasks' :
       TaskChanged(coworkTasks'[i].id) =>
         \E k \in DOMAIN coworkSaves' :
           /\ k > Len(coworkSaves)
           /\ coworkSaves'[k] = [id |-> coworkTasks'[i].id,
                                 status |-> coworkTasks'[i].status,
                                 steps |-> coworkTasks'[i].steps]]_vars

\* C23: each awaited save of startCoworkTask, resolved or rejected, is
\* followed by the same continuation: after the first save the first step is
\* appended to the task, after the second the run starts with the tasks
\* unchanged, after the save of the catch block the list is re-sorted.  The
\* tasks after the step depend on the tasks before it and not on the outcome
\* of the save.
C23_FailedSaveDoesNotBlock ==
  [][\A l \in DOMAIN coworkLaunches :
       LET pc == coworkLaunches[l].pc
           next == coworkLaunches'[l].pc
       IN  /\ (pc = "save1" /\ next # pc) =>
                /\ next = "save2"
                /\ coworkTasks' = appendCoworkStep([Cw EXCEPT !.content = <<>>],
                                     "Understanding your request", "running").tasks
           /\ (pc = "save2" /\ next # pc) =>
                next = "browser" /\ coworkTasks' = coworkTasks
           /\ (pc = "save3" /\ next # pc) =>
                next = "end" /\ coworkTasks' = updateCoworkTaskStatus(Cw).tasks]_vars

\* Both saves of a launch were rejected, cowork_stream was issued for it, and
\* its task is first in the list, running, with its first step.
C23_Witness ==
  \E l \in DOMAIN coworkLaunches :
    /\ coworkLaunches[l].failed = 2
    /\ coworkLaunches[l].call = "pending"
    /\ coworkTasks[1].id = coworkLaunches[l].task
    /\ coworkTasks[1].status = "running"
    /\ Len(coworkTasks[1].steps) = 1

\* ====================================================== co-work list claims
SortedByUpdatedAt(tasks) ==
  \A i, j \in DOMAIN tasks : i < j => tasks[i].updatedAt >= tasks[j].updatedAt

StatusesOf(tasks) == {<<tasks[i].id, tasks[i].status>> : i \in DOMAIN tasks}

\* C25: every step of the program that changes the status of a task leaves
\* the task list ordered by updatedAt descending; and when the task was
\* already in the list, the active task is the same task (by id) as before.
C25_ListSortedAfterStatusChange ==
  [][StatusesOf(coworkTasks') # StatusesOf(coworkTasks)
       => /\ SortedByUpdatedAt(coworkTasks')
          /\ Len(coworkTasks') = Len(coworkTasks)
               => currentCoworkTask' = currentCoworkTask]_vars

\* ===================================================== tool-call id claims
NoStep == [title |-> "none", log |-> <<>>, status |-> "none"]
\* The step of the active task that coworkToolSteps associates with a
\* tool-call id.
ToolStepOf(c, id) ==
  IF id \in DOMAIN c.toolSteps /\ HasStep(c, c.stepIndex[c.toolSteps[id]])
  THEN ensureCoworkTaskSteps(c)[c.stepIndex[c.toolSteps[id]] + 1]
  ELSE NoStep

\* A chat tool event leaves the tool messages of the other ids as they were.
ChatEventKeepsOtherIds(t, d) ==
  \A b \in DOMAIN toolMessages :
    b # d.tool_call_id => (b \in DOMAIN t.toolMessages /\ t.toolMessages[b] = toolMessages[b])

\* The backend can emit an event of a task run, of a chat stream.
RunEmitting ==
  \E l \in DOMAIN coworkLaunches : coworkLaunches[l].call # "none" /\ RunLive(l)
StreamEmitting == \E s \in DOMAIN chatStreams : StreamLive(s)

\* C26: in every state, a tool event carrying one tool-call id leaves the
\* records of the other ids as they were: in chat dispatch the tool messages
\* of the other ids, in task-run dispatch the steps associated with them.
C26_EventTouchesOnlyItsId ==
  /\ StreamEmitting =>
       /\ \A d \in InterleavedStatusData :
            ChatEventKeepsOtherIds(handleToolStatus(Tm, NULL, d), d)
       /\ \A d \in InterleavedResultData :
            ChatEventKeepsOtherIds(handleToolResult(Tm, NULL, d), d)
  /\ RunEmitting =>
       \A ev \in CoworkToolEventData : \A b \in DOMAIN coworkToolSteps :
         b # ev.id =>
           ToolStepOf(handleCoworkEvent(Cw, currentCoworkTask, ev, coworkClock), b)
             = ToolStepOf(Cw, b)

\* The steps of the active task.
ActiveSteps(c) == ensureCoworkTaskSteps(c)

\* The chat handler gave the event's id one tool message: a new one when the
\* id had none, the same element when it had one; no other id gained one.
ChatEventKeepsOneRecord(t, d) ==
  /\ d.tool_call_id \in DOMAIN t.toolMessages
  /\ d.tool_call_id \in DOMAIN toolMessages =>
       t.toolMessages[d.tool_call_id].el = toolMessages[d.tool_call_id].el
  /\ DOMAIN t.toolMessages = DOMAIN toolMessages \cup {d.tool_call_id}
  /\ Cardinality(t.messagesDom) =
       Cardinality(messagesDom) + (IF d.tool_call_id \in DOMAIN toolMessages THEN 0 ELSE 1)

\* C27: in every state, a tool event for an id without a record creates
\* exactly one record for it, and a tool event for an id with a record keeps
\* that record and creates none: in chat dispatch the tool message of the
\* id, in task-run dispatch the step that coworkToolSteps associates with it.
C27_OneRecordPerToolCall ==
  /\ StreamEmitting =>
       /\ \A d \in InterleavedStatusData :
            ChatEventKeepsOneRecord(handleToolStatus(Tm, NULL, d), d)
       /\ \A d \in InterleavedResultData :
            ChatEventKeepsOneRecord(handleToolResult(Tm, NULL, d), d)
  /\ (RunEmitting /\ currentCoworkTask # NULL) =>
       \A ev \in CoworkToolEventData :
         LET c == handleCoworkEvent(Cw, currentCoworkTask, ev, coworkClock)
         IN  IF ev.id \in DOMAIN coworkToolSteps
             THEN /\ c.toolSteps[ev.id] = coworkToolSteps[ev.id]
                  /\ Len(ActiveSteps(c)) = Len(ActiveSteps(Cw))
             ELSE /\ ev.id \in DOMAIN c.toolSteps
                  /\ Len(ActiveSteps(c)) = Len(ActiveSteps(Cw)) + 1

\* C28: in every state of a task run in which a tool call has its step,
\* delivering a summary with tool_status end and then the same summary with
\* tool_result for that call leaves the step's log as the tool_status end
\* left it: the summary is in the log once.
C28_SummaryOnceInStepLog ==
  (RunEmitting /\ currentCoworkTask # NULL) =>
    \A id \in DOMAIN coworkToolSteps :
      LET ended == handleCoworkEvent(Cw, currentCoworkTask,
                     [NoEventData EXCEPT !.type = "tool_status", !.id = id,
                                         !.state = "end", !.summary = <<"s">>],
                     coworkClock)
          resulted == handleCoworkEvent(ended, currentCoworkTask,
                        [NoEventData EXCEPT !.type = "tool_result", !.id = id,
                                            !.summary = <<"s">>],
                        coworkClock)
      IN  ToolStepOf(resulted, id).log = ToolStepOf(ended, id).log

\* ===================================================== answer and thinking
HasChar(text, ch) == \E i \in DOMAIN text : text[i] = ch

\* C29: in every state, no saved assistant content holds a character of a
\* thinking text, and no step of a task holds in its log both a character of
\* a chunk text and a character of a thinking text.
C29_AnswerAndThinkingApart ==
  /\ \A i \in DOMAIN saveCalls : \A th \in ThinkingContents :
       ~HasChar(saveCalls[i].content, th[1])
  /\ \A i \in DOMAIN coworkTasks : \A k \in DOMAIN coworkTasks[i].steps :
       ~(HasChar(coworkTasks[i].steps[k].log, "c")
           /\ HasChar(coworkTasks[i].steps[k].log, "t"))

\* ============================================================== rendering
\* C30: in every animation frame at most one flush is executed for a message
\* element, however many chunk events were fed to it since the last frame.
C30_OneFlushPerTick ==
  \A i, j \in DOMAIN lastFrame : i < j => lastFrame[i].el # lastFrame[j].el

\* ==================================================== stream and tab claims
\* C31: every assistant reply that finishStreaming persists for a chat stream
\* is persisted to the session for which that stream was started, whatever
\* tabs were activated, opened or closed while the stream was running.
C31_ReplySavedToStreamsSession ==
  \A i \in DOMAIN saveCalls :
    saveCalls[i].sessionId = chatStreams[saveCalls[i].stream].sessionId

\* ======================================================= file editor claims
\* C32: whenever edit mode is on, the active tab is the tab on which editing
\* began, and every write_file call saveFile issues names the file of that
\* tab.
C32_SaveWritesTheEditedFile ==
  /\ editMode => activeTab = editTab
  /\ \A i \in DOMAIN fileWrites : fileWrites[i].path = fileWrites[i].editing

\* ================================================== co-work liveness claims
\* C33: every task run for which the backend has delivered a done or error
\* event leads to its task having status completed or error, whatever
\* navigation clicks and launches are interleaved with the events.
C33_TerminalEventEndsTask ==
  \A l \in 1..MaxLaunches :
    (l \in DOMAIN coworkLaunches /\ coworkLaunches[l].terminals > 0)
      ~> (/\ l \in DOMAIN coworkLaunches
          /\ TaskById(coworkTasks, coworkLaunches[l].task).status \in TerminalStatuses)

\* ====================================================== task isolation claims
\* The steps, logs or status of task id differ after the step.
TaskModified(id) ==
  \/ TaskById(coworkTasks', id).status # TaskById(coworkTasks, id).status
  \/ StepsOf(coworkTasks', id) # StepsOf(coworkTasks, id)

\* The step is one of the launch of task id, or delivers an event of its run;
\* every event of the specification carries the session token of its run.
OwnStep(id) ==
  \E l \in DOMAIN coworkLaunches :
    coworkLaunches[l].task = id /\ coworkLaunches'[l] # coworkLaunches[l]

\* C34: a step that changes the steps, logs or status of a task is a step of
\* that task's own launch or an event carrying that task's session token:
\* the launch of another task and the events of another run never modify it.
C34_TaskChangedOnlyByItsOwnRun ==
  [][\A i \in DOMAIN coworkTasks :
       TaskModified(coworkTasks[i].id) => OwnStep(coworkTasks[i].id)]_vars

\* ======================================================= tab pointer claims
\* No operation is in progress: no stream is running and every backend call
\* issued has settled.
NoCallPending ==
  /\ ~isStreaming
  /\ \A s \in DOMAIN chatStreams : chatStreams[s].call # "pending"
  /\ \A i \in DOMAIN saveCalls : saveCalls[i].result # "pending"
  /\ \A i \in DOMAIN sessionOpens : sessionOpens[i].result # "pending"
  /\ \A i \in DOMAIN fileOpens : fileOpens[i].result # "pending"

\* The active tab is a session tab bound to a session.
ActiveBoundTab ==
  LET i == TabIndex(openTabs, activeTab)
  IN i # 0 /\ openTabs[i].type = "session" /\ openTabs[i].session # NULL

\* C35: in every state with no operation in progress, if the active tab is a
\* bound session tab then currentSession is that tab's session, and if
\* currentSession is set then a session tab bound to it is open.
C35_CurrentSessionMatchesTabs ==
  NoCallPending =>
    /\ ActiveBoundTab =>
         currentSession = openTabs[TabIndex(openTabs, activeTab)].session
    /\ currentSession # NULL =>
         \E i \in DOMAIN openTabs :
           openTabs[i].type = "session" /\ openTabs[i].session = currentSession

\* ==================================================== approval dialog claims
\* C36: in every state the approval dialog is open exactly when an approval
\* id is pending.
C36_DialogOpenIffPending ==
  toolApprovalModalOpen <=> pendingApprovalId # NULL

\* C37: in every state the active-tab pointer is empty or the key of an open
\* tab, and it is empty exactly when no tab is open.
C37_ActiveTabIsOpenTab ==
  /\ activeTab = NULL \/ activeTab \in OpenPaths
  /\ activeTab = NULL <=> openTabs = <<>>

\* The draft tabs that are open.
DraftPaths == {openTabs[i].path : i \in {k \in DOMAIN openTabs : openTabs[k].isNew}}

\* u is the state after a draft tab p was made active without an error.
DraftShown(u, p) ==
  /\ ~u.threw
  /\ u.activeTab = p
  /\ u.currentSession = NULL
  /\ u.tabBar = TabPaths(u.openTabs)

\* The tab closeTab selects when the active tab q is closed, 0 when none.
Replacement(q) ==
  LET index == TabIndex(openTabs, q)
      rest == RemoveAt(openTabs, index)
  IN IF index = 0 \/ activeTab # q \/ rest = <<>> THEN NULL
     ELSE rest[Min(index, Len(rest))].path

\* C38: in every state, activateTab of a draft tab, and closeTab of the
\* active tab when the replacement it selects is a draft tab, raise no error
\* and leave the draft tab active, the current-session pointer empty and the
\* tab bar showing the open tabs.
C38_DraftTabShownWithoutError ==
  /\ \A p \in DraftPaths : DraftShown(activateTab(Ui, p), p)
  /\ \A q \in OpenPaths :
       Replacement(q) \in DraftPaths => DraftShown(closeTab(Ui, q), Replacement(q))

\* ==================================================== displayed messages
\* C39: whenever the active tab is a bound session tab, every message
\* displayed in elements.messages belongs to that tab's session (placeholders
\* belong to none).
C39_DisplayedMessagesOfCurrentSession ==
  ActiveBoundTab =>
    \A m \in messagesDom :
      m.owner \in {NULL, openTabs[TabIndex(openTabs, activeTab)].session}

\* ===================================================== chat liveness claims
\* Stream s has ended, by a terminal event or a rejected start call, and no
\* later stream has been started.
LastStreamEnded(s) ==
  /\ s \in DOMAIN chatStreams
  /\ s = Len(chatStreams)
  /\ chatStreams[s].terminals > 0 \/ chatStreams[s].call = "rejected"

Idle ==
  /\ ~isStreaming
  /\ inputsEnabled
  /\ currentTextBuffer = <<>>
  /\ currentThinkingBuffer = <<>>

\* C40: with every backend call eventually resolving or rejecting, a chat
\* stream whose terminal event was delivered or whose start call was rejected
\* leads to isStreaming = false with the inputs enabled and both buffers
\* empty.
C40_EndedStreamBecomesIdle ==
  \A s \in 1..MaxStarts : LastStreamEnded(s) ~> Idle

\* A stream has ended and its production still waits for the save to settle.
C40_Witness ==
  \E s \in DOMAIN chatStreams :
    /\ LastStreamEnded(s)
    /\ isStreaming
    /\ \E i \in DOMAIN saveCalls : saveCalls[i].stream = s /\ saveCalls[i].result = "pending"
====
